---------------------------- MODULE Spec2Model ----------------------------
(* A model of flat-manager-hooks: the publish hook (cmd_publish.rs), which   *)
(* rewrites every ref of a build repository inside an OSTree transaction,    *)
(* and the review hook (review/mod.rs), which validates a build and reports  *)
(* a check status.                                                           *)
(*                                                                           *)
(* Conventions.  An Option<T> is a set with at most one element: None is {}  *)
(* and Some(x) is {x}.  A Result<T> is a record [ok, val].  Appstream keys   *)
(* are sequences of one-character strings, so that to_lowercase and          *)
(* starts_with are computed character by character.  A refstring is the      *)
(* sequence of its '/'-separated segments, and its id segment the sequence   *)
(* of its '.'-separated components.  An object of the content-addressed      *)
(* store is identified with its content: two checksums are equal iff the     *)
(* contents are.                                                             *)
EXTENDS Integers, Sequences, FiniteSets, TLC

VARIABLES
    \* ---- publish run (PublishArgs::run, rewrite_ref) ----
    repo_refs,        \* the repository's ref map: refstring -> commit
    refs,             \* the run's list_refs snapshot: refstring -> checksum
    todo,             \* refstrings of the snapshot not yet iterated
    build,            \* Option<BuildExtended> of the run
    storefront_infos, \* the run's HashMap app_id -> StorefrontInfo
    cur,              \* Option: the arguments of the rewrite_ref call
    pc,               \* position of the run
    tx,               \* Option: the live Transaction object, [finished]
    inTx,             \* the repository has a prepared transaction
    txnRefs,          \* ref updates staged in the repository's transaction
    mtree,            \* Option: the MutableTree of the rewrite_ref call
    newCommit,        \* Option: the commit written by write_commit_with_time
    txLog,            \* per Transaction::new that succeeded: the refstring, the
                      \* calls of commit_transaction that succeeded, the calls of
                      \* abort_transaction, the staged ref updates, and how
                      \* rewrite_ref returned
    \* ---- rewrite_appstream_xml / rewrite_metadata applied to drawn inputs ----
    fnIn,             \* the drawn input
    fnOut,            \* the results computed so far
    fnPc,             \* position of the application
    \* ---- review run (do_review) ----
    rv                \* the state of the review run

vars == <<repo_refs, refs, todo, build, storefront_infos, cur, pc, tx, inTx,
          txnRefs, mtree, newCommit, txLog, fnIn, fnOut, fnPc, rv>>

publishVars == <<repo_refs, refs, todo, build, storefront_infos, cur, pc, tx,
                 inTx, txnRefs, mtree, newCommit, txLog>>

fnVars == <<fnIn, fnOut, fnPc>>

-----------------------------------------------------------------------------
(* Option and Result                                                         *)

None == {}

Some(x) == {x}

is_some(o) == o # {}

is_none(o) == o = {}

unwrap(o) == CHOOSE x \in o : TRUE

Ok(v) == [ok |-> TRUE, val |-> v]

Err(e) == [ok |-> FALSE, val |-> e]

SeqsUpTo(S, n) == UNION {[1..k -> S] : k \in 0..n}

Range(s) == {s[i] : i \in DOMAIN s}

-----------------------------------------------------------------------------
(* Strings as character sequences                                            *)

UpperChars == <<"A","B","C","D","E","F","G","H","I","J","K","L","M",
                "N","O","P","Q","R","S","T","U","V","W","X","Y","Z">>

LowerChars == <<"a","b","c","d","e","f","g","h","i","j","k","l","m",
                "n","o","p","q","r","s","t","u","v","w","x","y","z">>

UpperSet == Range(UpperChars)

LowerMap ==
    [c \in UpperSet |->
        LowerChars[CHOOSE i \in DOMAIN UpperChars : UpperChars[i] = c]]

\* char::to_lowercase on the characters the model uses
char_to_lowercase(c) == IF c \in UpperSet THEN LowerMap[c] ELSE c

to_lowercase(s) == [i \in DOMAIN s |-> char_to_lowercase(s[i])]

starts_with(s, prefix) ==
    /\ Len(s) >= Len(prefix)
    /\ SubSeq(s, 1, Len(prefix)) = prefix


-----------------------------------------------------------------------------
(* Appstream keys                                                            *)

\* the literals of the purge in rewrite_appstream_xml
FLATHUB_PREFIX == <<"f","l","a","t","h","u","b",":",":">>

FLATHUB_MANIFEST == <<"f","l","a","t","h","u","b",":",":","m","a","n","i","f","e","s","t">>

FLATHUB_BUILD_PREFIX == <<"f","l","a","t","h","u","b",":",":","b","u","i","l","d",":",":">>

\* the keys set_value is called with
KEY_VERIFIED == <<"f","l","a","t","h","u","b",":",":","v","e","r","i","f","i","c","a","t","i","o","n",":",":","v","e","r","i","f","i","e","d">>

KEY_TIMESTAMP == <<"f","l","a","t","h","u","b",":",":","v","e","r","i","f","i","c","a","t","i","o","n",":",":","t","i","m","e","s","t","a","m","p">>

KEY_METHOD == <<"f","l","a","t","h","u","b",":",":","v","e","r","i","f","i","c","a","t","i","o","n",":",":","m","e","t","h","o","d">>

KEY_LOGIN_NAME == <<"f","l","a","t","h","u","b",":",":","v","e","r","i","f","i","c","a","t","i","o","n",":",":","l","o","g","i","n","_","n","a","m","e">>

KEY_LOGIN_PROVIDER == <<"f","l","a","t","h","u","b",":",":","v","e","r","i","f","i","c","a","t","i","o","n",":",":","l","o","g","i","n","_","p","r","o","v","i","d","e","r">>

KEY_WEBSITE == <<"f","l","a","t","h","u","b",":",":","v","e","r","i","f","i","c","a","t","i","o","n",":",":","w","e","b","s","i","t","e">>

KEY_LOGIN_IS_ORGANIZATION == <<"f","l","a","t","h","u","b",":",":","v","e","r","i","f","i","c","a","t","i","o","n",":",":","l","o","g","i","n","_","i","s","_","o","r","g","a","n","i","z","a","t","i","o","n">>

KEY_RECOMMENDED_DONATION == <<"f","l","a","t","h","u","b",":",":","p","r","i","c","i","n","g",":",":","r","e","c","o","m","m","e","n","d","e","d","_","d","o","n","a","t","i","o","n">>

KEY_MINIMUM_PAYMENT == <<"f","l","a","t","h","u","b",":",":","p","r","i","c","i","n","g",":",":","m","i","n","i","m","u","m","_","p","a","y","m","e","n","t">>

KEY_BUILD_LOG_URL == <<"f","l","a","t","h","u","b",":",":","b","u","i","l","d",":",":","b","u","i","l","d","_","l","o","g","_","u","r","l">>

KEY_BUILD_REF_LOG_URL == <<"f","l","a","t","h","u","b",":",":","b","u","i","l","d",":",":","b","u","i","l","d","_","r","e","f","_","l","o","g","_","u","r","l">>

\* further keys an input document may carry
KEY_MANIFEST_MIXED == <<"F","l","a","t","h","u","b",":",":","M","a","n","i","f","e","s","t">>

KEY_VERIFIED_UPPER == <<"F","L","A","T","H","U","B",":",":","v","e","r","i","f","i","c","a","t","i","o","n",":",":","v","e","r","i","f","i","e","d">>

KEY_BUILD_MIXED == <<"F","l","a","t","h","u","b",":",":","B","u","i","l","d",":",":","b","u","i","l","d","_","l","o","g","_","u","r","l">>

KEY_LEGACY_BUILD_LOG == <<"f","l","a","t","h","u","b",":",":","b","u","i","l","d","_","l","o","g","_","u","r","l">>

KEY_MANIFEST_LONGER == <<"f","l","a","t","h","u","b",":",":","m","a","n","i","f","e","s","t","2">>

KEY_ONE_COLON == <<"f","l","a","t","h","u","b",":","b","u","i","l","d">>

KEY_OTHER == <<"u","p","s","t","r","e","a","m",":",":","k","e","y">>

-----------------------------------------------------------------------------
(* Refstrings                                                                *)

REF_APP == <<"app", <<"org", "flatpak", "Test">>, "x86_64", "stable">>

REF_LOCALE == <<"runtime", <<"org", "flatpak", "Test", "Locale">>, "x86_64", "stable">>

REF_OTHER == <<"app", <<"org", "gnome", "Builder">>, "aarch64", "stable">>

APP_SUFFIXES == <<"Sources", "Debug", "Locale">>

\* utils.rs: the id segment, without its last component when that is a suffix
app_id_from_ref(refstring) ==
    LET ref_id == refstring[2]
        id_parts == ref_id
    IN  IF id_parts[Len(id_parts)] \in Range(APP_SUFFIXES)
        THEN SubSeq(id_parts, 1, Len(id_parts) - 1)
        ELSE ref_id

-----------------------------------------------------------------------------
(* Storefront and build facts (storefront.rs, job_utils.rs)                  *)

VerificationInfo(verified, timestamp, method, website, login_provider, login_name, login_is_organization) ==
    [verified |-> verified, timestamp |-> timestamp, method |-> method,
     website |-> website, login_provider |-> login_provider,
     login_name |-> login_name,
     login_is_organization |-> login_is_organization]

PricingInfo(recommended_donation, minimum_payment) ==
    [recommended_donation |-> recommended_donation,
     minimum_payment |-> minimum_payment]

StorefrontInfo(verification, pricing, is_free_software) ==
    [verification |-> verification, pricing |-> pricing,
     is_free_software |-> is_free_software]

\* StorefrontInfo::default(), the answer to a 404
StorefrontInfoDefault == StorefrontInfo(None, None, None)

BuildRef(ref_name, build_log_url) ==
    [ref_name |-> ref_name, build_log_url |-> build_log_url]

BuildExtended(build_log_url, build_refs) ==
    [build |-> [build_log_url |-> build_log_url], build_refs |-> build_refs]

-----------------------------------------------------------------------------
(* The appstream catalog document                                            *)
(*                                                                           *)
(* The text of a document is [wellformed, canonical, components]: whether    *)
(* it parses, whether it is laid out exactly as Element::to_string lays a    *)
(* tree out (declaration, quoting, blanks outside the tree), and the tree    *)
(* it parses to.  A component is the sequence of its child elements; a       *)
(* child is [tag, tail, children]; a child of a custom block is              *)
(* [tag, key, text, tail].                                                   *)

XmlText(wellformed, canonical, components) ==
    [wellformed |-> wellformed, canonical |-> canonical,
     components |-> components]

MALFORMED_XML == XmlText(FALSE, FALSE, <<>>)

\* Element::from_reader: the tree of a text that parses
from_reader(text) ==
    IF text.wellformed THEN Ok(text.components) ELSE Err("parse error")

\* Element::to_string: the tree written out in the writer's own layout
to_string(root) == XmlText(TRUE, TRUE, root)

Entry(tag, key, text, tail) ==
    [tag |-> tag, key |-> key, text |-> text, tail |-> tail]

Element(tag, tail, children) ==
    [tag |-> tag, tail |-> tail, children |-> children]

\* the tail rewrite_appstream_xml gives the elements it creates
NEW_TAIL == "\n  "

\* index of the first element of s satisfying P, 0 when there is none
FirstIndex(s, P(_)) ==
    IF \E i \in DOMAIN s : P(s[i])
    THEN CHOOSE i \in DOMAIN s : P(s[i]) /\ \A j \in 1..(i - 1) : ~P(s[j])
    ELSE 0

\* a closure that matches the build prefix without asking for build facts
retain_value_ignoring_build(value, build_) ==
    IF is_some(value.key)
    THEN LET key_lower == to_lowercase(unwrap(value.key))
         IN  IF starts_with(key_lower, FLATHUB_PREFIX)
             THEN key_lower = FLATHUB_MANIFEST
                      \/ starts_with(key_lower, FLATHUB_BUILD_PREFIX)
             ELSE TRUE
    ELSE TRUE

\* the closure handed to retain_children: TRUE keeps the child
retain_value(value, build_) ==
    IF is_some(value.key)
    THEN LET key == unwrap(value.key)
             key_lower == to_lowercase(key)
         IN  IF starts_with(key_lower, FLATHUB_PREFIX)
             THEN IF key_lower = FLATHUB_MANIFEST
                  THEN TRUE
                  ELSE IF /\ starts_with(key_lower, FLATHUB_BUILD_PREFIX)
                          /\ is_none(build_)
                       THEN TRUE
                       ELSE FALSE
             ELSE TRUE
    ELSE TRUE

\* a purge that drops only the first child the closure rejects
retain_children_first_only(children, build_) ==
    LET i == FirstIndex(children, LAMBDA value : ~retain_value(value, build_))
    IN  IF i = 0 THEN children
        ELSE SubSeq(children, 1, i - 1) \o SubSeq(children, i + 1, Len(children))

\* Element::retain_children: the children the closure keeps, in order
retain_children(children, build_) ==
    SelectSeq(children, LAMBDA value : retain_value(value, build_))

\* the purge loop: every custom child of the component
purge_component(component, build_) ==
    [i \in DOMAIN component |->
        IF component[i].tag = "custom"
        THEN [component[i] EXCEPT
                 !.children = retain_children(component[i].children, build_)]
        ELSE component[i]]

\* find_or_create_element(custom, "value", Some(("key", key))).set_text(value)
upsert_value(children, key, value) ==
    LET i == FirstIndex(children,
                 LAMBDA el : el.tag = "value" /\ el.key = Some(key))
    IN  IF i # 0
        THEN [children EXCEPT ![i].text = value]
        ELSE Append(children, Entry("value", Some(key), value, NEW_TAIL))

\* set_value(key, Some(value)) on the component
set_value(component, key, value) ==
    LET i == FirstIndex(component, LAMBDA el : el.tag = "custom")
        withCustom == IF i # 0 THEN component
                      ELSE Append(component, Element("custom", NEW_TAIL, <<>>))
        j == IF i # 0 THEN i ELSE Len(withCustom)
    IN  [withCustom EXCEPT
            ![j].children = upsert_value(withCustom[j].children, key, value)]

bool_str(b) == IF b THEN "true" ELSE "false"

\* Option::map(|x| x.to_string()) on an Option<i32>
opt_to_string(o) == IF is_some(o) THEN Some(ToString(unwrap(o))) ELSE None

\* build.build_refs.iter().find(|x| x.ref_name == refstring)
\*      .and_then(|x| x.build_log_url.as_ref())
build_ref_log_url(build_ext, refstring) ==
    LET i == FirstIndex(build_ext.build_refs,
                 LAMBDA x : x.ref_name = refstring)
    IN  IF i = 0 THEN None ELSE build_ext.build_refs[i].build_log_url

\* the calls of set_value, in program order, as <<key, Option value>>
verification_calls(storefront_info) ==
    IF is_some(storefront_info.verification)
    THEN LET verification == unwrap(storefront_info.verification)
         IN  << <<KEY_VERIFIED, Some(bool_str(verification.verified))>>,
                <<KEY_TIMESTAMP, verification.timestamp>>,
                <<KEY_METHOD, verification.method>>,
                <<KEY_LOGIN_NAME, verification.login_name>>,
                <<KEY_LOGIN_PROVIDER, verification.login_provider>>,
                <<KEY_WEBSITE, verification.website>>,
                <<KEY_LOGIN_IS_ORGANIZATION,
                  Some(bool_str(is_some(verification.login_is_organization)))>> >>
    ELSE <<>>

pricing_calls(storefront_info) ==
    IF is_some(storefront_info.pricing)
    THEN LET pricing == unwrap(storefront_info.pricing)
         IN  << <<KEY_RECOMMENDED_DONATION,
                  opt_to_string(pricing.recommended_donation)>>,
                <<KEY_MINIMUM_PAYMENT,
                  opt_to_string(pricing.minimum_payment)>> >>
    ELSE <<>>

build_calls(build_, refstring) ==
    IF is_some(build_)
    THEN << <<KEY_BUILD_LOG_URL, unwrap(build_).build.build_log_url>>,
            <<KEY_BUILD_REF_LOG_URL,
              build_ref_log_url(unwrap(build_), refstring)>> >>
    ELSE <<>>

set_value_calls(storefront_info, refstring, build_) ==
    SelectSeq(verification_calls(storefront_info)
                  \o pricing_calls(storefront_info)
                  \o build_calls(build_, refstring),
              LAMBDA c : is_some(c[2]))

RECURSIVE apply_set_values(_, _)
apply_set_values(component, calls) ==
    IF calls = <<>> THEN component
    ELSE apply_set_values(
             set_value(component, calls[1][1], unwrap(calls[1][2])),
             Tail(calls))

\* cmd_publish.rs rewrite_appstream_xml: Result<String>
rewrite_appstream_xml(storefront_info, refstring, build_, original_appstream) ==
    LET root == from_reader(original_appstream)
    IN  IF ~root.ok THEN Err("parse error")
        ELSE IF Len(root.val) # 1 THEN Err("Expected exactly 1 <component> tag")
        ELSE LET component == root.val[1]
                 purged == purge_component(component, build_)
                 calls == set_value_calls(storefront_info, refstring, build_)
                 changed == purged # component \/ calls # <<>>
                 edited == apply_set_values(purged, calls)
             IN  IF changed THEN Ok(to_string(<<edited>>))
                 ELSE Ok(original_appstream)

-----------------------------------------------------------------------------
(* Commit metadata (rewrite_metadata, list_subsets)                          *)
(*                                                                           *)
(* A VariantDict is a function from the keys of MetaKeys to Option values:   *)
(* a key that is not in the dictionary maps to None.                         *)

XA_SUBSETS == "xa.subsets"

XA_TOKEN_TYPE == "xa.token-type"

XA_METADATA == "xa.metadata"

MetaKeys == {XA_SUBSETS, XA_TOKEN_TYPE, XA_METADATA}

dict_insert(dict, key, value) == [dict EXCEPT ![key] = Some(value)]

dict_remove(dict, key) == [dict EXCEPT ![key] = None]

\* i32::to_le on the little-endian targets the hook is built for
to_le(x) == x

\* a derivation that takes any answer on is_free_software for free software
list_subsets_floss_if_known(storefront_info) ==
    LET verified == /\ is_some(storefront_info.verification)
                    /\ unwrap(storefront_info.verification).verified
        floss == is_some(storefront_info.is_free_software)
    IN  (IF verified THEN <<"verified">> ELSE <<>>)
            \o (IF floss THEN <<"floss">> ELSE <<>>)
            \o (IF verified /\ floss THEN <<"verified_floss">> ELSE <<>>)

\* Lists all the subsets that we should add to a commit
list_subsets(storefront_info) ==
    LET verified == /\ is_some(storefront_info.verification)
                    /\ unwrap(storefront_info.verification).verified
        floss == /\ is_some(storefront_info.is_free_software)
                 /\ unwrap(storefront_info.is_free_software)
    IN  (IF verified THEN <<"verified">> ELSE <<>>)
            \o (IF floss THEN <<"floss">> ELSE <<>>)
            \o (IF verified /\ floss THEN <<"verified_floss">> ELSE <<>>)

\* a test that takes an amount of zero for a payment
is_some_and_not_negative(o) == is_some(o) /\ unwrap(o) >= 0

\* Option<i32>::is_some_and(|x| x > 0)
is_some_and_positive(o) == is_some(o) /\ unwrap(o) > 0

is_paid(storefront_info) ==
    /\ is_some(storefront_info.pricing)
    /\ \/ is_some_and_positive(unwrap(storefront_info.pricing).recommended_donation)
       \/ is_some_and_positive(unwrap(storefront_info.pricing).minimum_payment)

\* Edits a commit's metadata according to the given storefront info
rewrite_metadata(metadata, storefront_info) ==
    LET subsets == list_subsets(storefront_info)
        m1 == IF subsets = <<>>
              THEN dict_remove(metadata, XA_SUBSETS)
              ELSE dict_insert(metadata, XA_SUBSETS, subsets)
    IN  IF is_paid(storefront_info)
        THEN dict_insert(m1, XA_TOKEN_TYPE, to_le(1))
        ELSE dict_remove(m1, XA_TOKEN_TYPE)

-----------------------------------------------------------------------------
(* rewrite_appstream_xml applied to drawn documents and facts                *)

\* bound: value entries of a drawn document
MaxEntries == 2

ORIG_TAIL == "\n      "

\* the key attribute of a drawn entry: absent, or one of these keys
XmlKeys ==
    {KEY_VERIFIED, KEY_VERIFIED_UPPER, FLATHUB_MANIFEST, KEY_MANIFEST_MIXED,
     KEY_BUILD_LOG_URL, KEY_BUILD_MIXED, KEY_LEGACY_BUILD_LOG,
     KEY_MANIFEST_LONGER, KEY_ONE_COLON, KEY_OTHER}

XmlEntries ==
    {Entry("value", k, "old", ORIG_TAIL) : k \in {None} \cup {Some(x) : x \in XmlKeys}}

ID_ELEMENT == Element("id", "\n    ", <<>>)

\* a component with an id, and the entries in one custom block (split = 0) or
\* in two, the first holding one entry; no block when there are no entries
DrawnComponent(entries, split) ==
    IF entries = <<>> THEN <<ID_ELEMENT>>
    ELSE IF split = 0
    THEN <<ID_ELEMENT, Element("custom", "\n    ", entries)>>
    ELSE <<ID_ELEMENT,
           Element("custom", "\n    ", SubSeq(entries, 1, split)),
           Element("custom", "\n    ", SubSeq(entries, split + 1, Len(entries)))>>

XmlComponents ==
    {DrawnComponent(entries, split) :
        <<entries, split>> \in
            {es \in SeqsUpTo(XmlEntries, MaxEntries) \X {0, 1} :
                es[2] <= Len(es[1])}}

XmlDocuments ==
    {XmlText(TRUE, canonical, <<c>>) :
        <<canonical, c>> \in BOOLEAN \X XmlComponents}
    \cup {MALFORMED_XML,
          XmlText(TRUE, FALSE, <<>>),
          XmlText(TRUE, FALSE, << <<ID_ELEMENT>>, <<ID_ELEMENT>> >>)}

XmlVerifications ==
    {None,
     Some(VerificationInfo(TRUE, Some("2023-01-01T00:00:00"), Some("website"),
                           Some("example.com"), None, None, None)),
     Some(VerificationInfo(FALSE, None, None, None, Some("github"),
                           Some("login"), Some(FALSE))),
     Some(VerificationInfo(TRUE, None, None, None, Some("github"),
                           Some("flathub"), Some(TRUE)))}

XmlPricings == {None, Some(PricingInfo(Some(1), None))}

XmlStorefrontInfos ==
    {StorefrontInfo(v, p, None) :
        <<v, p>> \in (XmlVerifications \X XmlPricings)
                         \ {<<Some(VerificationInfo(TRUE, Some("2023-01-01T00:00:00"),
                                    Some("website"), Some("example.com"),
                                    None, None, None)),
                              Some(PricingInfo(Some(1), None))>>}}

XmlBuilds ==
    {None,
     Some(BuildExtended(None, <<>>)),
     Some(BuildExtended(Some("https://example.com"),
              <<BuildRef(REF_LOCALE, Some("https://example.com/wrong")),
                BuildRef(REF_APP, Some("https://example.com/ref"))>>))}

\* first application; the tree after the purge loop is kept as well
XmlApply ==
    /\ fnPc = "start"
    /\ fnOut' = [fnOut EXCEPT
           !.purged = IF from_reader(fnIn.doc).ok
                         /\ Len(from_reader(fnIn.doc).val) = 1
                      THEN Some(purge_component(from_reader(fnIn.doc).val[1],
                                                fnIn.build))
                      ELSE None,
           !.once = Some(rewrite_appstream_xml(fnIn.storefront_info,
                             fnIn.refstring, fnIn.build, fnIn.doc))]
    /\ fnPc' = "once"
    /\ UNCHANGED <<fnIn, publishVars, rv>>

\* second application, to the output of the first and with the same facts
XmlApplyAgain ==
    /\ fnPc = "once"
    /\ unwrap(fnOut.once).ok
    /\ fnOut' = [fnOut EXCEPT
           !.twice = Some(rewrite_appstream_xml(fnIn.storefront_info,
                              fnIn.refstring, fnIn.build,
                              unwrap(fnOut.once).val))]
    /\ fnPc' = "twice"
    /\ UNCHANGED <<fnIn, publishVars, rv>>

PublishIdle ==
    /\ repo_refs = <<>> /\ refs = <<>> /\ todo = {} /\ build = None
    /\ storefront_infos = <<>> /\ cur = None /\ pc = "idle" /\ tx = None
    /\ inTx = FALSE /\ txnRefs = <<>> /\ mtree = None /\ newCommit = None
    /\ txLog = <<>>

ReviewIdle == rv = None

FnIdle == fnIn = None /\ fnOut = None /\ fnPc = "idle"

XmlInit ==
    /\ fnIn \in [doc : XmlDocuments,
                 storefront_info : XmlStorefrontInfos,
                 build : XmlBuilds,
                 refstring : {REF_APP}]
    /\ fnOut = [purged |-> None, once |-> None, twice |-> None]
    /\ fnPc = "start"
    /\ PublishIdle
    /\ ReviewIdle

XmlNext == XmlApply \/ XmlApplyAgain

SpecXml == XmlInit /\ [][XmlNext]_vars

-----------------------------------------------------------------------------
(* Claims about rewrite_appstream_xml                                        *)

\* C6: idempotence of fact injection.  Applying rewrite_appstream_xml to its
\* own output with the same facts succeeds and returns a text byte-identical
\* to the output of the first application.
C6_Idempotent ==
    fnPc = "twice" =>
        /\ unwrap(fnOut.twice).ok
        /\ unwrap(fnOut.twice).val = unwrap(fnOut.once).val

\* the second application ran on a document that the first one edited: stale
\* and duplicate flathub:: entries were purged and facts were injected
C6_Witness ==
    /\ fnPc = "twice"
    /\ unwrap(fnOut.once).val # fnIn.doc
    /\ unwrap(fnOut.purged) # fnIn.doc.components[1]
    /\ is_some(fnIn.storefront_info.verification)
    /\ \E i \in DOMAIN fnIn.doc.components[1] :
           LET ch == fnIn.doc.components[1][i].children
           IN  Len(ch) = 2 /\ ch[1] = ch[2] /\ ch[1].key = Some(KEY_VERIFIED)

\* C7, the predicate in the claim's words: the entry has a key whose lower
\* case starts with "flathub::", is not "flathub::manifest", and is not a
\* "flathub::build::" key of a run without build facts
C7_Removed(value, build_) ==
    /\ is_some(value.key)
    /\ starts_with(to_lowercase(unwrap(value.key)), FLATHUB_PREFIX)
    /\ to_lowercase(unwrap(value.key)) # FLATHUB_MANIFEST
    /\ ~(/\ starts_with(to_lowercase(unwrap(value.key)), FLATHUB_BUILD_PREFIX)
         /\ is_none(build_))

C7_Survivors(children, build_) ==
    SelectSeq(children, LAMBDA value : ~C7_Removed(value, build_))

\* C7: purge predicate.  After the purge loop every custom block holds exactly
\* the entries of the input block that the predicate does not remove, in their
\* order, other children of the component are as they were, and the entries
\* of the input that the returned document still holds are those survivors.
C7_PurgePredicate ==
    (fnPc \in {"once", "twice"} /\ is_some(fnOut.purged)) =>
        LET component == fnIn.doc.components[1]
            purged == unwrap(fnOut.purged)
            out == unwrap(fnOut.once).val.components[1]
        IN  /\ Len(purged) = Len(component)
            /\ \A i \in DOMAIN component :
                   IF component[i].tag = "custom"
                   THEN /\ purged[i].children =
                               C7_Survivors(component[i].children, fnIn.build)
                        /\ SelectSeq(out[i].children,
                                     LAMBDA value : value.tail = ORIG_TAIL)
                               = C7_Survivors(component[i].children, fnIn.build)
                   ELSE purged[i] = component[i]

\* a run without build facts that removed a stale entry and kept a
\* flathub::build:: entry, and a manifest key written in mixed case survives
C7_Witness ==
    /\ fnPc = "once"
    /\ is_some(fnOut.purged)
    /\ is_none(fnIn.build)
    /\ \E i \in DOMAIN fnIn.doc.components[1] :
           LET ch == fnIn.doc.components[1][i].children
               kept == unwrap(fnOut.purged)[i].children
           IN  /\ Len(ch) = 2 /\ Len(kept) = 1
               /\ ch[1].key = Some(KEY_BUILD_MIXED)
               /\ ch[2].key = Some(KEY_VERIFIED_UPPER)
               /\ kept[1].key = Some(KEY_BUILD_MIXED)

-----------------------------------------------------------------------------
(* rewrite_metadata applied to drawn dictionaries and facts                  *)

\* bound: the amounts of a drawn pricing record are -MaxAmount..MaxAmount
MaxAmount == 1

Amounts == {None} \cup {Some(a) : a \in (0 - MaxAmount)..MaxAmount}

MetaVerifications ==
    {None} \cup
    {Some(VerificationInfo(verified, None, None, None, None, None, org)) :
        <<verified, org>> \in BOOLEAN \X {None, Some(FALSE)}}

MetaPricings ==
    {None} \cup {Some(PricingInfo(rd, mp)) : <<rd, mp>> \in Amounts \X Amounts}

MetaStorefrontInfos ==
    {StorefrontInfo(v, p, f) :
        <<v, p, f>> \in MetaVerifications \X MetaPricings
                            \X {None, Some(TRUE), Some(FALSE)}}

\* the metadata of a commit as the build, or an earlier publish, left it
MetaDicts ==
    {[k \in MetaKeys |->
         CASE k = XA_SUBSETS -> subsets
           [] k = XA_TOKEN_TYPE -> token
           [] OTHER -> Some("[Application]")] :
        <<subsets, token>> \in
            {None, Some(<<>>), Some(<<"verified">>),
             Some(<<"verified", "floss", "verified_floss">>)}
                \X {None, Some(0), Some(1)}}

MetaInit ==
    /\ fnIn \in [metadata : MetaDicts, storefront_info : MetaStorefrontInfos]
    /\ fnOut = None
    /\ fnPc = "start"
    /\ PublishIdle
    /\ ReviewIdle

MetaApply ==
    /\ fnPc = "start"
    /\ fnOut' = Some(rewrite_metadata(fnIn.metadata, fnIn.storefront_info))
    /\ fnPc' = "done"
    /\ UNCHANGED <<fnIn, publishVars, rv>>

MetaNext == MetaApply

SpecMeta == MetaInit /\ [][MetaNext]_vars

-----------------------------------------------------------------------------
(* Claims about rewrite_metadata                                             *)

C8_Verified ==
    /\ is_some(fnIn.storefront_info.verification)
    /\ unwrap(fnIn.storefront_info.verification).verified = TRUE

C8_Floss == fnIn.storefront_info.is_free_software = Some(TRUE)

\* C8: subset derivation.  After rewrite_metadata, xa.subsets is removed when
\* neither "verified" nor "floss" applies, and is otherwise the list holding
\* "verified" iff the verification record is present with verified = true,
\* "floss" iff is_free_software is true and "verified_floss" iff both, in
\* that order and nothing else.
C8_Subsets ==
    fnPc = "done" =>
        LET subsets == unwrap(fnOut)[XA_SUBSETS]
        IN  IF ~C8_Verified /\ ~C8_Floss
            THEN subsets = None
            ELSE /\ is_some(subsets)
                 /\ unwrap(subsets) # <<>>
                 /\ ("verified" \in Range(unwrap(subsets))) <=> C8_Verified
                 /\ ("floss" \in Range(unwrap(subsets))) <=> C8_Floss
                 /\ ("verified_floss" \in Range(unwrap(subsets)))
                        <=> (C8_Verified /\ C8_Floss)
                 /\ unwrap(subsets) \in
                        {<<"verified">>, <<"floss">>,
                         <<"verified", "floss", "verified_floss">>}

\* a dictionary that carried a subset list lost the field: the facts have a
\* verification record that is not verified and the app is not free software
C8_Witness ==
    /\ fnPc = "done"
    /\ is_some(fnIn.metadata[XA_SUBSETS])
    /\ is_some(fnIn.storefront_info.verification)
    /\ fnIn.storefront_info.is_free_software = Some(FALSE)
    /\ unwrap(fnOut)[XA_SUBSETS] = None

C9_Paid ==
    /\ is_some(fnIn.storefront_info.pricing)
    /\ \/ \E a \in unwrap(fnIn.storefront_info.pricing).recommended_donation : a >= 1
       \/ \E a \in unwrap(fnIn.storefront_info.pricing).minimum_payment : a >= 1

\* C9: token type.  After rewrite_metadata, xa.token-type is 1 iff pricing is
\* present and recommended_donation or minimum_payment is a strictly positive
\* integer; in every other case the field is removed.
C9_TokenType ==
    fnPc = "done" =>
        unwrap(fnOut)[XA_TOKEN_TYPE] = IF C9_Paid THEN Some(1) ELSE None

\* a dictionary that carried token type 1 lost the field under a pricing
\* record whose amounts are zero and negative
C9_Witness ==
    /\ fnPc = "done"
    /\ fnIn.metadata[XA_TOKEN_TYPE] = Some(1)
    /\ is_some(fnIn.storefront_info.pricing)
    /\ unwrap(fnIn.storefront_info.pricing).recommended_donation = Some(0)
    /\ unwrap(fnIn.storefront_info.pricing).minimum_payment = Some(0 - 1)
    /\ unwrap(fnOut)[XA_TOKEN_TYPE] = None

-----------------------------------------------------------------------------
(* The repository: files, trees, commits (content-addressed)                 *)

\* a regular file of files/share/app-info/xmls: whether its bytes are a gzip
\* stream of UTF-8 text, the encoder that produced the stream (its header and
\* compression differ from one encoder to another), and the text
File(gzip, encoder, text) == [gzip |-> gzip, encoder |-> encoder, text |-> text]

\* the encoder of the appstream tooling that built the commit
ENCODER_UPSTREAM == "appstream-builder"

\* GzEncoder::new(Vec::new(), Compression::default())
ENCODER_FLATE2 == "flate2"

\* a commit's tree: the files of files/share/app-info/xmls, by the app id in
\* the name <app_id>.xml.gz (everything else in the tree is never edited)
Tree(xmls) == [xmls |-> xmls]

Commit(parent, subject, body, time, metadata, root) ==
    [parent |-> parent, subject |-> subject, body |-> body, time |-> time,
     metadata |-> metadata, root |-> root]

\* repo.write_commit_with_time, with the argument order of the call
write_commit_with_time(parent, subject, body, metadata, root, time) ==
    Commit(parent, subject, body, time, metadata, root)

\* utils.rs mtree_lookup_file for files/share/app-info/xmls/<app_id>.xml.gz
mtree_lookup_file(tree, app_id) ==
    IF app_id \in DOMAIN tree.xmls
    THEN Ok(tree.xmls[app_id])
    ELSE Err("file not found")

\* GzDecoder::read_to_string
gz_decode(file) == IF file.gzip THEN Ok(file.text) ELSE Err("invalid gzip")

\* GzEncoder::write_all and write_regfile_inline: the new file object
gz_encode(text) == File(TRUE, ENCODER_FLATE2, text)

\* MutableTree::replace_file at files/share/app-info/xmls
replace_file(tree, app_id, file) ==
    [tree EXCEPT !.xmls = [tree.xmls EXCEPT ![app_id] = file]]

\* a rewrite that writes the file back even when the text is the same
rewrite_appstream_file_no_skip(tree, app_id, storefront_info, build_, refstring) ==
    LET appstream_file == mtree_lookup_file(tree, app_id)
    IN  IF ~appstream_file.ok THEN Ok(tree)
        ELSE LET s == gz_decode(appstream_file.val)
             IN  IF ~s.ok THEN Err(s.val)
                 ELSE LET new_appstream ==
                              rewrite_appstream_xml(storefront_info, refstring,
                                                    build_, s.val)
                      IN  IF ~new_appstream.ok THEN Err(new_appstream.val)
                          ELSE Ok(replace_file(tree, app_id,
                                               gz_encode(new_appstream.val)))

\* a rewrite for which a missing file is an error
rewrite_appstream_file_requires_file(tree, app_id, storefront_info, build_, refstring) ==
    LET appstream_file == mtree_lookup_file(tree, app_id)
    IN  IF ~appstream_file.ok THEN Err(appstream_file.val)
        ELSE LET s == gz_decode(appstream_file.val)
             IN  IF ~s.ok THEN Err(s.val)
                 ELSE LET new_appstream ==
                              rewrite_appstream_xml(storefront_info, refstring,
                                                    build_, s.val)
                      IN  IF ~new_appstream.ok THEN Err(new_appstream.val)
                          ELSE IF new_appstream.val = s.val THEN Ok(tree)
                          ELSE Ok(replace_file(tree, app_id,
                                               gz_encode(new_appstream.val)))

\* cmd_publish.rs rewrite_appstream_file, I/O failures aside: the MutableTree
\* it leaves, or the error of decoding or rewriting the document
rewrite_appstream_file(tree, app_id, storefront_info, build_, refstring) ==
    LET appstream_file == mtree_lookup_file(tree, app_id)
    IN  IF ~appstream_file.ok THEN Ok(tree)
        ELSE LET s == gz_decode(appstream_file.val)
             IN  IF ~s.ok THEN Err(s.val)
                 ELSE LET new_appstream ==
                              rewrite_appstream_xml(storefront_info, refstring,
                                                    build_, s.val)
                      IN  IF ~new_appstream.ok THEN Err(new_appstream.val)
                          ELSE IF new_appstream.val = s.val THEN Ok(tree)
                          ELSE Ok(replace_file(tree, app_id,
                                               gz_encode(new_appstream.val)))

\* a commit written without the parent of the original
rewritten_commit_without_parent(commit, root, storefront_info) ==
    write_commit_with_time(None, commit.subject, commit.body,
                           rewrite_metadata(commit.metadata, storefront_info),
                           root, commit.time)

\* rewrite_ref lines 96-116: the commit written for the original commit
rewritten_commit(commit, root, storefront_info) ==
    write_commit_with_time(commit.parent, commit.subject, commit.body,
                           rewrite_metadata(commit.metadata, storefront_info),
                           root, commit.time)

\* a ref update that is staged whatever the new checksum is
staged_ref_always(staged, refstring, checksum, new_checksum) ==
    (refstring :> new_checksum) @@ staged

\* rewrite_ref lines 118-124: transaction_set_ref unless the checksums agree
staged_ref(staged, refstring, checksum, new_checksum) ==
    IF checksum = new_checksum
    THEN staged
    ELSE (refstring :> new_checksum) @@ staged

\* a commit that drops the staged ref updates
commit_transaction_keeps_refs(ref_map, staged) == ref_map

\* commit_transaction: the staged ref updates are applied
commit_transaction(ref_map, staged) ==
    [r \in DOMAIN ref_map |->
        IF r \in DOMAIN staged THEN staged[r] ELSE ref_map[r]]

\* a drop that aborts without looking at the finished flag
drop_aborts_always(t) == TRUE

\* Drop for Transaction: abort unless the transaction was committed
drop_aborts(t) == ~t.finished

\* an insert that replaces the info the map holds
insert_always(infos, app_id, storefront_info) ==
    (app_id :> storefront_info) @@ infos

\* the storefront_infos map after line 62-64
insert_if_absent(infos, app_id, storefront_info) ==
    IF app_id \in DOMAIN infos THEN infos
    ELSE (app_id :> storefront_info) @@ infos

-----------------------------------------------------------------------------
(* The publish run                                                           *)

\* bound: refs of the build repository
MaxRefs == 2

RefUniverse == <<REF_APP, REF_LOCALE, REF_OTHER>>

DOC_PLAIN == XmlText(TRUE, FALSE, << <<ID_ELEMENT>> >>)

\* the document of test_rewrite_appstream_xml_removes_old_tags
DOC_STALE ==
    XmlText(TRUE, FALSE,
        << <<ID_ELEMENT,
             Element("custom", "\n    ",
                 <<Entry("value", Some(KEY_RECOMMENDED_DONATION), "1", ORIG_TAIL),
                   Entry("value", Some(KEY_LEGACY_BUILD_LOG),
                         "https://example.com", ORIG_TAIL)>>)>> >>)

SI_VERIFIED_PAID ==
    StorefrontInfo(
        Some(VerificationInfo(TRUE, Some("2023-01-01T00:00:00"), Some("website"),
                              Some("example.com"), None, None, None)),
        Some(PricingInfo(Some(1), None)),
        Some(TRUE))

SI_FLOSS == StorefrontInfo(None, None, Some(TRUE))

\* what the backend may answer to get_storefront_info
PubStorefrontInfos == {StorefrontInfoDefault, SI_VERIFIED_PAID, SI_FLOSS}

\* a republish, or a build with a log URL
PubBuilds == {None, Some(BuildExtended(Some("https://example.com"), <<>>))}

\* the document an earlier republish left for SI_VERIFIED_PAID
DOC_PUBLISHED ==
    rewrite_appstream_xml(SI_VERIFIED_PAID, REF_APP, None, DOC_PLAIN).val

META_PLAIN ==
    [k \in MetaKeys |-> IF k = XA_METADATA THEN Some("[Application]") ELSE None]

META_PUBLISHED == rewrite_metadata(META_PLAIN, SI_VERIFIED_PAID)

PubFiles ==
    {File(TRUE, ENCODER_UPSTREAM, d) : d \in {DOC_PLAIN, DOC_STALE, MALFORMED_XML}}
        \cup {File(TRUE, ENCODER_FLATE2, DOC_PUBLISHED),
              File(FALSE, ENCODER_UPSTREAM, MALFORMED_XML)}

EmptyMap == [x \in {} |-> x]

\* the trees a ref may have: app refs carry a catalog file, or none
PubTrees(refstring) ==
    {Tree(EmptyMap)} \cup
    (IF refstring[1] = "app"
     THEN {Tree(app_id_from_ref(refstring) :> f) : f \in PubFiles}
     ELSE {})

PubCommits(refstring) ==
    {Commit(None, "Export", "Name: " \o refstring[4], 1700000000, m, t) :
        <<m, t>> \in {META_PLAIN, META_PUBLISHED} \X PubTrees(refstring)}

PubRefMaps ==
    UNION {{f \in [{RefUniverse[i] : i \in 1..n} -> UNION {PubCommits(r) : r \in Range(RefUniverse)}] :
               \A r \in DOMAIN f : f[r] \in PubCommits(r)} :
           n \in 1..MaxRefs}

PubInit ==
    /\ repo_refs \in PubRefMaps
    /\ refs = EmptyMap /\ todo = {} /\ build = None
    /\ storefront_infos = EmptyMap /\ cur = None /\ pc = "start" /\ tx = None
    /\ inTx = FALSE /\ txnRefs = EmptyMap /\ mtree = None /\ newCommit = None
    /\ txLog = <<>>
    /\ FnIdle
    /\ ReviewIdle

PubUnchanged == UNCHANGED <<fnVars, rv>>

\* glib::Error of a repository call, and of commit_transaction
IO_ERROR == "glib::Error"

COMMIT_ERROR == "glib::Error: commit_transaction"

\* run lines 36-49: the config, the repository, list_refs and the build
RunStart ==
    /\ pc = "start"
    /\ refs' = repo_refs
    /\ todo' = DOMAIN repo_refs
    /\ build' \in PubBuilds
    /\ pc' = "loop"
    /\ UNCHANGED <<repo_refs, storefront_infos, cur, tx, inTx, txnRefs, mtree,
                   newCommit, txLog>>
    /\ PubUnchanged

\* one of the ? of lines 36-48 returns the error
RunStartFail ==
    /\ pc = "start"
    /\ pc' = "failed"
    /\ UNCHANGED <<repo_refs, refs, todo, build, storefront_infos, cur, tx,
                   inTx, txnRefs, mtree, newCommit, txLog>>
    /\ PubUnchanged

\* run lines 54-67: the next ref of the snapshot, in the HashMap's order; its
\* storefront info is fetched, and kept if the app id has none yet
NextRef ==
    /\ pc = "loop"
    /\ \E refstring \in todo, fetched \in PubStorefrontInfos :
           LET app_id == app_id_from_ref(refstring)
               infos == insert_if_absent(storefront_infos, app_id, fetched)
           IN  /\ todo' = todo \ {refstring}
               /\ storefront_infos' = infos
               /\ cur' = Some([refstring |-> refstring,
                               checksum |-> refs[refstring],
                               fetched |-> fetched,
                               storefront_info |-> infos[app_id]])
    /\ pc' = "tx_new"
    /\ UNCHANGED <<repo_refs, refs, build, tx, inTx, txnRefs, mtree, newCommit,
                   txLog>>
    /\ PubUnchanged

\* run line 61: get_storefront_info returns an error
FetchFail ==
    /\ pc = "loop"
    /\ todo # {}
    /\ pc' = "failed"
    /\ UNCHANGED <<repo_refs, refs, todo, build, storefront_infos, cur, tx,
                   inTx, txnRefs, mtree, newCommit, txLog>>
    /\ PubUnchanged

\* run line 70
RunDone ==
    /\ pc = "loop"
    /\ todo = {}
    /\ pc' = "done"
    /\ UNCHANGED <<repo_refs, refs, todo, build, storefront_infos, cur, tx,
                   inTx, txnRefs, mtree, newCommit, txLog>>
    /\ PubUnchanged

\* rewrite_ref line 83, Transaction::new: prepare_transaction succeeds
TxNew ==
    /\ pc = "tx_new"
    /\ inTx' = TRUE
    /\ tx' = Some([finished |-> FALSE])
    /\ txLog' = Append(txLog, [refstring |-> unwrap(cur).refstring,
                               fetched |-> unwrap(cur).fetched,
                               storefront_info |-> unwrap(cur).storefront_info,
                               commits |-> 0, aborts |-> 0,
                               set_refs |-> <<>>, result |-> "running",
                               error |-> None])
    /\ pc' = "from_commit"
    /\ UNCHANGED <<repo_refs, refs, todo, build, storefront_infos, cur,
                   txnRefs, mtree, newCommit>>
    /\ PubUnchanged

\* Transaction::new: prepare_transaction fails, rewrite_ref returns the error
TxNewFail ==
    /\ pc = "tx_new"
    /\ pc' = "failed"
    /\ UNCHANGED <<repo_refs, refs, todo, build, storefront_infos, cur, tx,
                   inTx, txnRefs, mtree, newCommit, txLog>>
    /\ PubUnchanged

\* rewrite_ref line 86
FromCommit ==
    /\ pc = "from_commit"
    /\ mtree' = Some(unwrap(cur).checksum.root)
    /\ pc' = "appstream"
    /\ UNCHANGED <<repo_refs, refs, todo, build, storefront_infos, cur, tx,
                   inTx, txnRefs, newCommit, txLog>>
    /\ PubUnchanged

\* the Result rewrite_ref returns, recorded for the transaction it opened
SetOk(log) == [log EXCEPT ![Len(log)].result = "Ok"]

SetErr(log, error) ==
    [log EXCEPT ![Len(log)].result = "Err", ![Len(log)].error = Some(error)]

\* rewrite_ref line 88: rewrite_appstream_file returns; its error is returned
RewriteAppstreamFile ==
    /\ pc = "appstream"
    /\ LET r == rewrite_appstream_file(unwrap(mtree),
                    app_id_from_ref(unwrap(cur).refstring),
                    unwrap(cur).storefront_info, build, unwrap(cur).refstring)
       IN  IF r.ok
           THEN /\ mtree' = Some(r.val)
                /\ pc' = "write_mtree"
                /\ txLog' = txLog
           ELSE /\ mtree' = mtree
                /\ pc' = "drop"
                /\ txLog' = SetErr(txLog, r.val)
    /\ UNCHANGED <<repo_refs, refs, todo, build, storefront_infos, cur, tx,
                   inTx, txnRefs, newCommit>>
    /\ PubUnchanged

\* rewrite_ref line 91
WriteMtree ==
    /\ pc = "write_mtree"
    /\ pc' = "write_commit"
    /\ UNCHANGED <<repo_refs, refs, todo, build, storefront_infos, cur, tx,
                   inTx, txnRefs, mtree, newCommit, txLog>>
    /\ PubUnchanged

\* rewrite_ref lines 96-116: load_commit, rewrite_metadata, write_commit_with_time
WriteCommit ==
    /\ pc = "write_commit"
    /\ newCommit' = Some(rewritten_commit(unwrap(cur).checksum, unwrap(mtree),
                                          unwrap(cur).storefront_info))
    /\ pc' = "set_ref"
    /\ UNCHANGED <<repo_refs, refs, todo, build, storefront_infos, cur, tx,
                   inTx, txnRefs, mtree, txLog>>
    /\ PubUnchanged

\* rewrite_ref lines 118-124
SetRef ==
    /\ pc = "set_ref"
    /\ txnRefs' = staged_ref(txnRefs, unwrap(cur).refstring,
                             unwrap(cur).checksum, unwrap(newCommit))
    /\ txLog' = IF txnRefs' = txnRefs THEN txLog
                ELSE [txLog EXCEPT ![Len(txLog)].set_refs =
                         Append(@, <<unwrap(cur).refstring, unwrap(newCommit)>>)]
    /\ pc' = "commit"
    /\ UNCHANGED <<repo_refs, refs, todo, build, storefront_infos, cur, tx,
                   inTx, mtree, newCommit>>
    /\ PubUnchanged

\* rewrite_ref line 126, Transaction::commit: commit_transaction succeeds
TxCommit ==
    /\ pc = "commit"
    /\ repo_refs' = commit_transaction(repo_refs, txnRefs)
    /\ txnRefs' = EmptyMap
    /\ inTx' = FALSE
    /\ tx' = Some([finished |-> TRUE])
    /\ txLog' = [SetOk(txLog) EXCEPT ![Len(txLog)].commits = @ + 1]
    /\ pc' = "drop"
    /\ UNCHANGED <<refs, todo, build, storefront_infos, cur, mtree, newCommit>>
    /\ PubUnchanged

\* Transaction::commit: commit_transaction fails and the error is returned
TxCommitFail ==
    /\ pc = "commit"
    /\ txLog' = SetErr(txLog, COMMIT_ERROR)
    /\ pc' = "drop"
    /\ UNCHANGED <<repo_refs, refs, todo, build, storefront_infos, cur, tx,
                   inTx, txnRefs, mtree, newCommit>>
    /\ PubUnchanged

\* a repository call of rewrite_ref lines 86-115 fails and ? returns the error
IoFail ==
    /\ pc \in {"from_commit", "appstream", "write_mtree", "write_commit"}
    /\ txLog' = SetErr(txLog, IO_ERROR)
    /\ pc' = "drop"
    /\ UNCHANGED <<repo_refs, refs, todo, build, storefront_infos, cur, tx,
                   inTx, txnRefs, mtree, newCommit>>
    /\ PubUnchanged

\* Drop for Transaction, as rewrite_ref returns; abort_transaction succeeds
Drop ==
    /\ pc = "drop"
    /\ IF drop_aborts(unwrap(tx))
       THEN /\ inTx' = FALSE
            /\ txnRefs' = EmptyMap
            /\ txLog' = [txLog EXCEPT ![Len(txLog)].aborts = @ + 1]
       ELSE UNCHANGED <<inTx, txnRefs, txLog>>
    /\ tx' = None
    /\ mtree' = None
    /\ newCommit' = None
    /\ IF txLog[Len(txLog)].result = "Ok"
       THEN pc' = "loop" /\ cur' = None
       ELSE pc' = "failed" /\ cur' = cur
    /\ UNCHANGED <<repo_refs, refs, todo, build, storefront_infos>>
    /\ PubUnchanged

\* Drop for Transaction: abort_transaction fails and expect panics
DropPanic ==
    /\ pc = "drop"
    /\ drop_aborts(unwrap(tx))
    /\ txLog' = [txLog EXCEPT ![Len(txLog)].aborts = @ + 1]
    /\ pc' = "panicked"
    /\ UNCHANGED <<repo_refs, refs, todo, build, storefront_infos, cur, tx,
                   inTx, txnRefs, mtree, newCommit>>
    /\ PubUnchanged

PubNext ==
    \/ RunStart \/ RunStartFail \/ NextRef \/ FetchFail \/ RunDone
    \/ TxNew \/ TxNewFail \/ FromCommit \/ RewriteAppstreamFile \/ WriteMtree
    \/ WriteCommit \/ SetRef \/ TxCommit \/ TxCommitFail \/ IoFail
    \/ Drop \/ DropPanic

SpecPublish == PubInit /\ [][PubNext]_vars

-----------------------------------------------------------------------------
(* Claims about the publish run                                              *)

\* rewrite_ref has returned to run, or run has returned
RewriteRefReturned == pc \in {"loop", "failed", "done"}

\* the transactions whose rewrite_ref has a Result
Returned == {i \in DOMAIN txLog : txLog[i].result # "running"}

LastTx == txLog[Len(txLog)]

\* C1: every transaction rewrite_ref opens is finished on every exit path: a
\* successful tx.commit() commits it once and it is never aborted; any error
\* return, a failed commit included, aborts it once and it is never committed;
\* no transaction is open once rewrite_ref has returned.
C1_TxFinished ==
    /\ \A i \in DOMAIN txLog :
          /\ txLog[i].commits + txLog[i].aborts <= 1
          /\ txLog[i].result = "Ok" /\ (pc # "drop" \/ i < Len(txLog))
                => txLog[i].commits = 1 /\ txLog[i].aborts = 0
          /\ txLog[i].result = "Err" /\ (pc # "drop" \/ i < Len(txLog))
                => txLog[i].commits = 0 /\ txLog[i].aborts = 1
          /\ txLog[i].commits = 1 => txLog[i].result = "Ok"
    /\ RewriteRefReturned => ~inTx /\ tx = None

\* a run that committed one ref's transaction and aborted the next one's
C1_Witness ==
    /\ pc = "failed"
    /\ Len(txLog) = 2
    /\ txLog[1].result = "Ok" /\ txLog[1].commits = 1 /\ txLog[1].aborts = 0
    /\ txLog[2].result = "Err" /\ txLog[2].commits = 0 /\ txLog[2].aborts = 1
    /\ txLog[2].error = Some(COMMIT_ERROR)

\* cmd_publish.rs rewrite_ref without I/O failures: the checksum the ref has
\* when rewrite_ref returns Ok
rewrite_ref(storefront_info, build_, refstring, checksum) ==
    LET t == rewrite_appstream_file(checksum.root, app_id_from_ref(refstring),
                                    storefront_info, build_, refstring)
    IN  rewritten_commit(checksum, t.val, storefront_info)

\* the refs whose rewrite_ref returned Ok
Processed ==
    {r \in DOMAIN refs : r \notin todo /\ (cur = None \/ unwrap(cur).refstring # r)}

\* C2 as stated: after a fatal error no ref points to a rewritten commit
C2_NoPartialState ==
    pc = "failed" => \A r \in DOMAIN refs : repo_refs[r] = refs[r]

\* C2: when the run ends with a fatal error no transaction is open and nothing
\* is staged; the failing ref and the refs not yet reached still point to
\* their original commits, and every ref processed before the failure keeps
\* the commit its own transaction committed.
C2_PartialState ==
    pc = "failed" =>
        /\ ~inTx /\ txnRefs = EmptyMap
        /\ \A r \in DOMAIN refs \ Processed : repo_refs[r] = refs[r]
        /\ \A r \in Processed :
              repo_refs[r] = rewrite_ref(storefront_infos[app_id_from_ref(r)],
                                         build, r, refs[r])

\* a failed run that left an earlier ref rewritten
C2_Witness ==
    /\ pc = "failed"
    /\ \E r \in Processed : repo_refs[r] # refs[r]
    /\ \E r \in DOMAIN refs \ Processed : TRUE

\* rewrite_ref is about to return Ok for the current ref
ReturnsOk == pc = "drop" /\ LastTx.result = "Ok"

CurFile == mtree_lookup_file(unwrap(cur).checksum.root,
                             app_id_from_ref(unwrap(cur).refstring))

\* the facts leave the text of the current ref's catalog file as it is
DocumentUnchanged ==
    /\ CurFile.ok
    /\ gz_decode(CurFile.val).ok
    /\ rewrite_appstream_xml(unwrap(cur).storefront_info, unwrap(cur).refstring,
                             build, gz_decode(CurFile.val).val)
           = Ok(gz_decode(CurFile.val).val)

MetadataUnchanged ==
    rewrite_metadata(unwrap(cur).checksum.metadata, unwrap(cur).storefront_info)
        = unwrap(cur).checksum.metadata

CurRefPointer == repo_refs[unwrap(cur).refstring]

C5_SetRef ==
    /\ pc = "commit" =>
          txnRefs = IF unwrap(newCommit) = unwrap(cur).checksum
                    THEN EmptyMap
                    ELSE unwrap(cur).refstring :> unwrap(newCommit)
    /\ txnRefs # EmptyMap =>
          /\ pc = "commit" \/ (pc \in {"drop", "panicked"} /\ LastTx.result = "Err")
          /\ inTx /\ tx = Some([finished |-> FALSE]) /\ LastTx.commits = 0
    /\ \A i \in DOMAIN txLog :
          /\ Len(txLog[i].set_refs) <= 1
          /\ \A j \in DOMAIN txLog[i].set_refs :
                /\ txLog[i].set_refs[j][1] = txLog[i].refstring
                /\ txLog[i].set_refs[j][2] # refs[txLog[i].refstring]
    /\ pc # "start" =>
          \A r \in DOMAIN refs :
              repo_refs[r] # refs[r] =>
                  \E i \in DOMAIN txLog :
                      /\ txLog[i].commits = 1
                      /\ txLog[i].set_refs = << <<r, repo_refs[r]>> >>

\* one transaction committed without staging, the next one staged its ref
C5_Witness ==
    /\ pc = "commit"
    /\ Len(txLog) = 2
    /\ txLog[1].commits = 1 /\ txLog[1].set_refs = <<>>
    /\ txnRefs = unwrap(cur).refstring :> unwrap(newCommit)

-----------------------------------------------------------------------------
(* The review run (review/mod.rs, job_utils.rs, review/validation.rs,        *)
(* review/moderation.rs)                                                     *)

\* utils.rs: the ids is_primary_ref leaves out
APPID_SKIPLIST ==
    {<<"net", "pcsx2", "PCSX2">>, <<"net", "wz2100", "wz2100">>,
     <<"org", "freedesktop", "Platform", "ClInfo">>,
     <<"org", "freedesktop", "Platform", "GlxInfo">>,
     <<"org", "freedesktop", "Platform", "VaInfo">>,
     <<"org", "freedesktop", "Platform", "VulkanInfo">>,
     <<"org", "mozilla", "Thunderbird">>, <<"org", "mozilla", "firefox">>}

\* utils.rs is_primary_ref
is_primary_ref(refstring) ==
    IF refstring[1] = "app"
    THEN LET appid == refstring[2] IN appid \notin APPID_SKIPLIST
    ELSE FALSE

\* utils::is_screenshots_ref, imported by review/validation.rs
is_screenshots_ref(refstring) == refstring[1] = "screenshots"

\* utils.rs arch_from_ref
arch_from_ref(refstring) == refstring[3]

\* utils.rs get_appstream_path
get_appstream_path(app_id) == <<"files/share/app-info/xmls/", app_id, ".xml.gz">>

\* review/diagnostics.rs ValidationDiagnostic
ValidationDiagnostic(refstring, is_warning, info) ==
    [refstring |-> refstring, is_warning |-> is_warning, info |-> info]

\* ValidationDiagnostic::new
new_diagnostic(info, refstring) == ValidationDiagnostic(refstring, FALSE, info)

\* ValidationDiagnostic::new_warning
new_warning(info, refstring) == ValidationDiagnostic(refstring, TRUE, info)

\* DiagnosticInfo::FailedToLoadAppstream
FailedToLoadAppstream(path, error) ==
    [category |-> "FailedToLoadAppstream", path |-> path, error |-> error]

\* ValidationDiagnostic::new_failed_to_load_appstream
new_failed_to_load_appstream(path, error, refstring) ==
    new_diagnostic(FailedToLoadAppstream(path, error), Some(refstring))

CheckResult(diagnostics) == [diagnostics |-> diagnostics]

\* serde_json::to_string of a CheckResult: DiagnosticInfo is written as its
\* category tag with the fields under "data"
serde_json_to_string(result) ==
    [json |-> "object",
     diagnostics |->
        [i \in DOMAIN result.diagnostics |->
            LET d == result.diagnostics[i]
            IN  [refstring |-> d.refstring, is_warning |-> d.is_warning,
                 info |-> [category |-> d.info.category,
                           data |-> [k \in DOMAIN d.info \ {"category"} |-> d.info[k]]]]]]

\* job_utils.rs CheckStatus
ReviewRequired(reason) == [status |-> "ReviewRequired", reason |-> Some(reason)]

Failed(reason) == [status |-> "Failed", reason |-> Some(reason)]

PassedWithWarnings(reason) == [status |-> "PassedWithWarnings", reason |-> Some(reason)]

Pending == [status |-> "Pending", reason |-> None]

ReviewRequestArgs(new_status, new_results) ==
    [new_status |-> new_status, new_results |-> new_results]

\* a review requirement that is reported as Pending
require_review_pending(reason, result, observe_only) ==
    ReviewRequestArgs(Pending, serde_json_to_string(result))

\* job_utils.rs require_review: the body it posts
require_review(reason, result, observe_only) ==
    ReviewRequestArgs(ReviewRequired(reason), serde_json_to_string(result))

\* a failure that is reported as Pending under observe-only
mark_failure_pending(reason, result, observe_only) ==
    ReviewRequestArgs(IF observe_only THEN Pending ELSE Failed(reason),
                      serde_json_to_string(result))

\* job_utils.rs mark_failure: the body it posts
mark_failure(reason, result, observe_only) ==
    ReviewRequestArgs(IF observe_only THEN PassedWithWarnings(reason)
                      ELSE Failed(reason),
                      serde_json_to_string(result))

\* job_utils.rs mark_still_pending: the body it posts
mark_still_pending(result, observe_only) ==
    ReviewRequestArgs(Pending, serde_json_to_string(result))

VALIDATIONS_FAILED == "One or more validations failed."

REQUIRES_REVIEW == "Some of the changes in this build require review by a moderator."

\* a check that takes a warning for an error
any_diagnostic(result) == result.diagnostics # <<>>

\* the any(|d| !d.is_warning) of do_review
any_error(result) == \E i \in DOMAIN result.diagnostics : ~result.diagnostics[i].is_warning

\* ---- what the review reads of a commit ----

\* a value under a name, for the rest of a computation
bind(x, Rest(_)) == Rest(x)

\* the ? of Rust: the rest of the computation on the value of an Ok, and the
\* Err itself otherwise
try(result, Rest(_)) == IF result.ok THEN Rest(result.val) ELSE result

\* a regular file of a commit: whether repo.load_file finds its object,
\* whether the whole of its content can then be read, and the content
RepoFile(loads, reads, bytes) == [loads |-> loads, reads |-> reads, bytes |-> bytes]

\* a commit of the build repository: whether read_commit succeeds, and its
\* regular files by path
ReviewCommit(readable, files) == [readable |-> readable, files |-> files]

\* repo.read_commit(checksum, Cancellable::NONE): the root of the commit
read_commit(checksum) ==
    IF checksum.readable THEN Ok(checksum.files) ELSE Err(<<IO_ERROR>>)

\* resolve_relative_path(path).query_exists(Cancellable::NONE)
query_exists(ref_files, path) == path \in DOMAIN ref_files

\* utils.rs read_file_from_repo
read_file_from_repo(file) ==
    IF file.loads /\ file.reads THEN Ok(file.bytes) ELSE Err(<<IO_ERROR>>)

\* utils.rs read_repo_file
read_repo_file(ref_files, path) ==
    IF ~query_exists(ref_files, path) THEN Err(<<"File does not exist">>)
    ELSE read_file_from_repo(ref_files[path])

\* review/validation.rs validate_primary_ref: the paths it formats
icon_path(app_id) == <<"files/share/app-info/icons/flatpak/128x128/", app_id, ".png">>

appdata_path(app_id) == <<"files/share/appdata/", app_id, ".appdata.xml">>

metainfo_path(app_id) == <<"files/share/metainfo/", app_id, ".metainfo.xml">>

\* an element of a metadata document, of what the review reads of it: its
\* tag, its type attribute, its text and its child elements
XmlElement(tag, type, text, children) ==
    [tag |-> tag, type |-> type, text |-> text, children |-> children]

\* Element::find_all: the children with the tag, in document order
find_all(element, tag) == SelectSeq(element.children, LAMBDA c : c.tag = tag)

\* the first element of a sequence, if any
first(s) == IF s = <<>> THEN None ELSE Some(s[1])

\* Element::find: the first child with the tag
find(element, tag) == first(find_all(element, tag))

\* the text of a metadata file (appdata or metainfo): whether it parses, the
\* root it parses to, and what appstream-util validate makes of the file
\* (Ok(TRUE) it passes, Ok(FALSE) it fails, Err the command cannot be run)
AppstreamContent(wellformed, root, lint) ==
    [wellformed |-> wellformed, canonical |-> FALSE, components |-> root,
     lint |-> lint]

\* review/diagnostics.rs DiagnosticInfo
AppstreamValidation(path) ==
    [category |-> "AppstreamValidation", path |-> path,
     stdout |-> "validation failed", stderr |-> ""]

MissingIcon(appstream_path) ==
    [category |-> "MissingIcon", appstream_path |-> appstream_path]

NoLocalIcon(appstream_path) ==
    [category |-> "NoLocalIcon", appstream_path |-> appstream_path]

MissingBuildLogUrl == [category |-> "MissingBuildLogUrl"]

ScreenshotNotMirrored(appstream_path, urls) ==
    [category |-> "ScreenshotNotMirrored", appstream_path |-> appstream_path,
     urls |-> urls]

MirroredScreenshotNotFound(appstream_path, expected_branch, urls) ==
    [category |-> "MirroredScreenshotNotFound",
     appstream_path |-> appstream_path, expected_branch |-> expected_branch,
     urls |-> urls]

NoScreenshotBranch(expected_branch) ==
    [category |-> "NoScreenshotBranch", expected_branch |-> expected_branch]

WrongArchExecutables(expected_arch, executables) ==
    [category |-> "WrongArchExecutables", expected_arch |-> expected_arch,
     executables |-> executables]

UnexpectedFilesInScreenshotBranch(files) ==
    [category |-> "UnexpectedFilesInScreenshotBranch", files |-> files]

\* a component-id check that accepts any single id
check_appstream_component_id_any(component, refstring) ==
    bind(find_all(component, "id"), LAMBDA ids :
        IF Len(ids) = 0 THEN Err(<<"Appstream component does not have an ID">>)
        ELSE IF Len(ids) # 1 THEN Err(<<"Appstream component has multiple IDs">>)
        ELSE Ok("()"))

\* review/validation.rs check_appstream_component_id
check_appstream_component_id(component, refstring) ==
    bind(find_all(component, "id"), LAMBDA ids :
    bind(app_id_from_ref(refstring), LAMBDA expected_id :
        IF Len(ids) = 0 THEN Err(<<"Appstream component does not have an ID">>)
        ELSE IF Len(ids) # 1 THEN Err(<<"Appstream component has multiple IDs">>)
        ELSE IF ids[1].text # expected_id
                /\ ids[1].text # Append(expected_id, "desktop")
        THEN Err(<<"Appstream component ID (">> \o ids[1].text
                 \o <<") does not match expected ID (">> \o expected_id
                 \o <<")">>)
        ELSE Ok("()")))

\* an icon policy that reports a missing icon whenever no icon is local
validate_appstream_component_strict(component, refstring, appstream_path, has_local_icon) ==
    bind(check_appstream_component_id(component, refstring), LAMBDA checked :
        Ok((IF ~checked.ok
            THEN <<new_failed_to_load_appstream(appstream_path, checked.val,
                                                refstring)>>
            ELSE <<>>)
           \o (IF has_local_icon THEN <<>>
               ELSE <<new_diagnostic(MissingIcon(appstream_path),
                                     Some(refstring))>>)))

\* review/validation.rs validate_appstream_component
validate_appstream_component(component, refstring, appstream_path, has_local_icon) ==
    bind(check_appstream_component_id(component, refstring), LAMBDA checked :
    bind(find_all(component, "icon"), LAMBDA icons :
        Ok((IF ~checked.ok
            THEN <<new_failed_to_load_appstream(appstream_path, checked.val,
                                                refstring)>>
            ELSE <<>>)
           \o (IF has_local_icon THEN <<>>
               ELSE IF \E i \in DOMAIN icons : icons[i].type = Some("remote")
               THEN <<new_warning(NoLocalIcon(appstream_path), Some(refstring))>>
               ELSE <<new_diagnostic(MissingIcon(appstream_path),
                                     Some(refstring))>>))))

\* review/validation.rs run_appstream_validate: appstream-util validate on a
\* checkout of the file
run_appstream_validate(appstream_content, refstring, appstream_path) ==
    IF ~appstream_content.lint.ok THEN Err(appstream_content.lint.val)
    ELSE IF ~appstream_content.lint.val
    THEN Ok(<<new_diagnostic(AppstreamValidation(appstream_path), Some(refstring))>>)
    ELSE Ok(<<>>)

\* review/validation.rs validate_appstream_file, on the root read_commit
\* returned; the error of Element::from_reader is returned by ?
validate_appstream_file(ref_files, refstring, appstream_path, has_local_icon) ==
    IF ~query_exists(ref_files, appstream_path) THEN Ok(<<>>)
    ELSE bind(read_repo_file(ref_files, appstream_path), LAMBDA appstream_content :
        IF ~appstream_content.ok
        THEN Ok(<<new_failed_to_load_appstream(appstream_path,
                      appstream_content.val, refstring)>>)
        ELSE bind(from_reader(appstream_content.val), LAMBDA appstream :
            IF ~appstream.ok THEN Err(<<appstream.val>>)
            ELSE try(run_appstream_validate(appstream_content.val, refstring,
                                            appstream_path), LAMBDA linted :
                     Ok(linted
                        \o validate_appstream_component(appstream.val,
                               refstring, appstream_path, has_local_icon).val))))

\* an Err with the text of the error: map_err(Into::into) and to_string()
into(result) == IF result.ok THEN result ELSE Err(<<result.val>>)

\* utils.rs load_appstream: the text of the catalog file and its root
load_appstream(checksum, app_id) ==
    try(read_commit(checksum), LAMBDA file :
    try(read_repo_file(file, get_appstream_path(app_id)), LAMBDA appstream_content :
    try(into(gz_decode(appstream_content)), LAMBDA content :
    try(into(from_reader(content)), LAMBDA root :
        Ok(<<content, root>>)))))

\* the URL prefix of the screenshot mirror
MIRROR_PREFIX == "https://dl.flathub.org/repo/screenshots/"

\* the text of an <image>: a URL, as its base up to the last directory
\* separator of the prefix and the path that follows
ImageUrl(base, path) == <<base, path>>

\* str::strip_prefix on the text of an <image>
strip_prefix(url, prefix) == IF url[1] = prefix THEN Some(url[2]) ELSE None

\* format!("screenshots/{arch}")
screenshots_branch(arch) == <<"screenshots", <<arch>>, "", "">>

\* repo.resolve_rev(refspec, true)
resolve_rev(repo, refspec) ==
    IF refspec \in DOMAIN repo THEN Some(repo[refspec]) ELSE None

RECURSIVE thumbnails_from(_, _, _, _, _)
\* the loop over the thumbnails of one screenshot from the i-th on
thumbnails_from(thumbnails, i, screenshots_file, not_mirrored, not_found) ==
    IF i > Len(thumbnails) THEN <<not_mirrored, not_found>>
    ELSE LET url == thumbnails[i].text
             filename == strip_prefix(url, MIRROR_PREFIX)
         IN  IF is_some(filename)
             THEN thumbnails_from(thumbnails, i + 1, screenshots_file,
                      not_mirrored,
                      IF ~query_exists(screenshots_file, unwrap(filename))
                      THEN Append(not_found, url) ELSE not_found)
             ELSE thumbnails_from(thumbnails, i + 1, screenshots_file,
                      Append(not_mirrored, url), not_found)

RECURSIVE screenshots_from(_, _, _, _, _)
\* the loop over the <screenshot> elements from the i-th on
screenshots_from(screenshot_list, i, screenshots_file, not_mirrored, not_found) ==
    IF i > Len(screenshot_list) THEN <<not_mirrored, not_found>>
    ELSE bind(find_all(screenshot_list[i], "image"), LAMBDA images :
         bind(SelectSeq(images,
                  LAMBDA im : im.type = None \/ im.type = Some("source")),
              LAMBDA sources :
         bind(SelectSeq(images, LAMBDA im : im.type = Some("thumbnail")),
              LAMBDA thumbnails :
             IF sources = <<>>
             THEN screenshots_from(screenshot_list, i + 1, screenshots_file,
                                   not_mirrored, not_found)
             ELSE bind(thumbnails_from(thumbnails, 1, screenshots_file,
                           IF thumbnails = <<>>
                           THEN Append(not_mirrored, sources[1].text)
                           ELSE not_mirrored,
                           not_found),
                       LAMBDA recorded :
                           screenshots_from(screenshot_list, i + 1,
                               screenshots_file, recorded[1], recorded[2])))))

\* the diagnostics of validate_appstream_screenshot_mirror for the URLs
\* recorded
mirror_diagnostics(refstring, appstream_path, expected_branch, not_mirrored_screenshots, not_found_screenshots) ==
    (IF not_found_screenshots # <<>>
     THEN <<new_diagnostic(MirroredScreenshotNotFound(appstream_path,
                               expected_branch, not_found_screenshots),
                           Some(refstring))>>
     ELSE <<>>)
    \o (IF not_mirrored_screenshots # <<>>
        THEN <<new_diagnostic(ScreenshotNotMirrored(appstream_path,
                                  not_mirrored_screenshots),
                              Some(refstring))>>
        ELSE <<>>)

\* review/validation.rs validate_appstream_screenshot_mirror
validate_appstream_screenshot_mirror(repo, refstring, screenshots, appstream_path) ==
    bind(screenshots_branch(arch_from_ref(refstring)), LAMBDA expected_branch :
    bind(resolve_rev(repo, expected_branch), LAMBDA screenshots_rev :
        IF is_none(screenshots_rev)
        THEN Ok(<<new_diagnostic(NoScreenshotBranch(expected_branch),
                                 Some(refstring))>>)
        ELSE try(read_commit(unwrap(screenshots_rev)), LAMBDA screenshots_file :
             bind(screenshots_from(find_all(screenshots, "screenshot"), 1,
                                   screenshots_file, <<>>, <<>>),
                  LAMBDA recorded :
                      Ok(mirror_diagnostics(refstring, appstream_path,
                             expected_branch, recorded[1], recorded[2]))))))

\* the schemes Url::parse requires a host for
SPECIAL_SCHEMES == {"http", "https", "ws", "wss", "ftp"}

\* Url::parse on a text written as its tokens, <<"https", ":", "//",
\* "example.com", "/log">>: a text without a scheme is a relative URL without
\* a base, and a URL of a special scheme needs a host
Url_parse(input) ==
    IF Len(input) < 2 \/ input[2] # ":" \/ input[1] \in {"", "/", "//"}
    THEN Err("relative URL without a base")
    ELSE LET rest == SelectSeq(SubSeq(input, 3, Len(input)),
                               LAMBDA t : t \notin {"/", "//"})
         IN  IF input[1] \in SPECIAL_SCHEMES /\ (rest = <<>> \/ rest[1] = "")
             THEN Err("empty host")
             ELSE Ok(input)

\* the services of the run: what the backend answers to is-free-software
\* (config.rs ValidateConfig for RegularConfig)
RegularConfig(is_free_software) == [is_free_software |-> is_free_software]

\* cmd_validate.rs ValidateConfig for ValidateArgs: get_is_free_software
ValidateArgs == [is_free_software |-> Ok(FALSE)]

\* cmd_validate.rs ValidateConfig for ValidateArgs: get_build
ValidateArgsBuild == BuildExtended(None, <<>>)

\* ValidateConfig::get_is_free_software
get_is_free_software(config, app_id, license) == config.is_free_software

\* a build-log policy that takes any candidate for a URL
build_log_diagnostics_unparsed(build_, refstring) ==
    bind(build_ref_log_url(build_, refstring), LAMBDA per_ref :
    bind(IF is_some(per_ref) THEN per_ref ELSE build_.build.build_log_url,
         LAMBDA build_url :
        IF is_none(build_url)
        THEN <<ValidationDiagnostic(Some(refstring), FALSE, MissingBuildLogUrl)>>
        ELSE <<>>))

\* review/validation.rs validate_appstream_catalog_file, lines 228-243: the
\* candidate URL of a free-software app and the diagnostic for it
build_log_diagnostics(build_, refstring) ==
    bind(build_ref_log_url(build_, refstring), LAMBDA per_ref :
    bind(IF is_some(per_ref) THEN per_ref ELSE build_.build.build_log_url,
         LAMBDA build_url :
        IF is_none(build_url) \/ ~Url_parse(unwrap(build_url)).ok
        THEN <<ValidationDiagnostic(Some(refstring), FALSE, MissingBuildLogUrl)>>
        ELSE <<>>))

\* the text of the first child with the tag: find(tag).map(|x| x.text())
find_text(element, tag) ==
    bind(find(element, tag), LAMBDA found :
        IF is_some(found) THEN Some(unwrap(found).text) ELSE None)

\* review/validation.rs validate_appstream_catalog_file, lines 200-246: the
\* checks of the one component of the catalog file
validate_catalog_component(config, build_, repo, refstring, component, appstream_path, has_local_icon) ==
    bind(find(component, "screenshots"), LAMBDA screenshots :
    try(IF is_some(screenshots)
        THEN validate_appstream_screenshot_mirror(repo, refstring,
                 unwrap(screenshots), appstream_path)
        ELSE Ok(<<>>),
        LAMBDA mirrored :
    try(get_is_free_software(config, app_id_from_ref(refstring),
                             find_text(component, "project_license")),
        LAMBDA is_free_software :
        Ok(validate_appstream_component(component, refstring, appstream_path,
                                        has_local_icon).val
           \o mirrored
           \o (IF is_free_software THEN build_log_diagnostics(build_, refstring)
               ELSE <<>>)))))

\* review/validation.rs validate_appstream_catalog_file
validate_appstream_catalog_file(config, build_, repo, checksum, refstring, has_local_icon) ==
    bind(get_appstream_path(app_id_from_ref(refstring)), LAMBDA appstream_path :
    bind(load_appstream(checksum, app_id_from_ref(refstring)), LAMBDA loaded :
        IF ~loaded.ok
        THEN Ok(<<new_failed_to_load_appstream(appstream_path, loaded.val,
                                               refstring)>>)
        ELSE bind(loaded.val[2], LAMBDA appstream :
             bind(find_all(appstream, "component"), LAMBDA components :
                 IF appstream.tag # "components"
                 THEN Ok(<<new_failed_to_load_appstream(appstream_path,
                               <<"Expected <components>, not <", appstream.tag,
                                 ">">>,
                               refstring)>>)
                 ELSE IF Len(components) > 1
                 THEN Ok(<<new_failed_to_load_appstream(appstream_path,
                               <<"Expected exactly one <component>, found multiple">>,
                               refstring)>>)
                 ELSE IF Len(components) = 0
                 THEN Ok(<<new_failed_to_load_appstream(appstream_path,
                               <<"Expected exactly one <component>, found none">>,
                               refstring)>>)
                 ELSE validate_catalog_component(config, build_, repo,
                          refstring, components[1], appstream_path,
                          has_local_icon)))))

RECURSIVE enumerate(_)
\* the elements of a set in the order an enumeration yields them
enumerate(S) ==
    IF S = {} THEN <<>>
    ELSE LET x == CHOOSE y \in S : TRUE IN <<x>> \o enumerate(S \ {x})

\* the content of a file as the scan sees it: the type content_type_guess
\* gives it, and the e_machine of its ELF header, None when
\* ElfBytes::minimal_parse fails
Binary(mime, e_machine) == [mime |-> mime, e_machine |-> e_machine]

\* an executable's content
Executable(e_machine) == Binary("application/x-executable", e_machine)

\* gio content_type_guess on the name and the first block of a file
content_type_guess(path, bytes) ==
    IF "mime" \in DOMAIN bytes THEN bytes.mime ELSE "application/octet-stream"

\* the directories of the paths of a commit that lie under files/
FILES_DIRECTORIES ==
    {"files/bin/", "files/lib/", "files/share/appdata/",
     "files/share/metainfo/", "files/share/app-info/xmls/",
     "files/share/app-info/icons/flatpak/128x128/"}

\* ref_files.child("files"): the regular files below it
child_files(ref_files) ==
    [p \in {q \in DOMAIN ref_files : q[1] \in FILES_DIRECTORIES} |-> ref_files[p]]

\* expected codes without the legacy 386 for x86_64
expected_codes_native(expected_arch) ==
    IF expected_arch = "x86_64" THEN {"EM_X86_64"}
    ELSE IF expected_arch = "aarch64" THEN {"EM_AARCH64"}
    ELSE {}

\* review_files.rs review_executable_file: the codes expected for an arch
expected_codes(expected_arch) ==
    IF expected_arch = "x86_64" THEN {"EM_X86_64", "EM_386"}
    ELSE IF expected_arch = "aarch64" THEN {"EM_AARCH64"}
    ELSE {}

\* review/diagnostics.rs WrongArchExecutable
WrongArchExecutable(path, detected_arch_code) ==
    [path |-> path, detected_arch_code |-> detected_arch_code]

RECURSIVE review_directory(_, _, _, _, _)
\* review_files.rs review_directory and review_file, from the i-th file on
review_directory(ref_files, paths, i, refstring, wrong_arch_executables) ==
    IF i > Len(paths) THEN Ok(wrong_arch_executables)
    ELSE bind(ref_files[paths[i]], LAMBDA file :
        IF ~file.loads THEN Err(<<IO_ERROR>>)
        ELSE IF content_type_guess(paths[i], file.bytes)
                    \notin {"application/x-executable", "application/x-sharedlib"}
        THEN review_directory(ref_files, paths, i + 1, refstring,
                              wrong_arch_executables)
        ELSE try(read_file_from_repo(file), LAMBDA data :
            IF is_none(data.e_machine)
               \/ unwrap(data.e_machine)
                      \in expected_codes(arch_from_ref(refstring))
            THEN review_directory(ref_files, paths, i + 1, refstring,
                                  wrong_arch_executables)
            ELSE review_directory(ref_files, paths, i + 1, refstring,
                     Append(wrong_arch_executables,
                            WrongArchExecutable(paths[i],
                                                unwrap(data.e_machine))))))

\* review_files.rs review_files
review_files(ref_files, refstring) ==
    try(review_directory(child_files(ref_files),
                         enumerate(DOMAIN child_files(ref_files)), 1, refstring,
                         <<>>),
        LAMBDA wrong_arch_executables :
            IF wrong_arch_executables # <<>>
            THEN Ok(<<new_warning(WrongArchExecutables(arch_from_ref(refstring),
                                      wrong_arch_executables),
                                  Some(refstring))>>)
            ELSE Ok(<<>>))

\* a validation of the catalog file and of the files only
validate_primary_ref_catalog_only(config, build_, repo, refstring, checksum) ==
    bind(app_id_from_ref(refstring), LAMBDA app_id :
    try(read_commit(checksum), LAMBDA ref_files :
    bind(query_exists(ref_files, icon_path(app_id)), LAMBDA has_local_icon :
    try(validate_appstream_catalog_file(config, build_, repo, checksum,
                                        refstring, has_local_icon),
        LAMBDA catalog :
    try(review_files(ref_files, refstring), LAMBDA files :
        Ok(catalog \o files))))))

\* review/validation.rs validate_primary_ref
validate_primary_ref(config, build_, repo, refstring, checksum) ==
    bind(app_id_from_ref(refstring), LAMBDA app_id :
    try(read_commit(checksum), LAMBDA ref_files :
    bind(query_exists(ref_files, icon_path(app_id)), LAMBDA has_local_icon :
    try(validate_appstream_file(ref_files, refstring, appdata_path(app_id),
                                has_local_icon),
        LAMBDA appdata :
    try(validate_appstream_file(ref_files, refstring, metainfo_path(app_id),
                                has_local_icon),
        LAMBDA metainfo :
    try(validate_appstream_catalog_file(config, build_, repo, checksum,
                                        refstring, has_local_icon),
        LAMBDA catalog :
    try(review_files(ref_files, refstring), LAMBDA files :
        Ok(appdata \o metainfo \o catalog \o files))))))))

\* review/validation.rs validate_screenshots_ref; a file of the branch is
\* <<"", name of the child of the root, rest of the path>>
validate_screenshots_ref(repo, refstring, checksum) ==
    try(read_commit(checksum), LAMBDA ref_files :
    bind({app_id_from_ref(s) : s \in {r \in DOMAIN repo : is_primary_ref(r)}},
         LAMBDA app_ids :
    bind(SelectSeq(enumerate({p[2] : p \in DOMAIN ref_files}),
             LAMBDA child_name :
                 ~\E app_id \in app_ids :
                     starts_with(child_name, Append(app_id, "-"))),
         LAMBDA unexpected_files :
        IF unexpected_files = <<>> THEN Ok(<<>>)
        ELSE Ok(<<new_diagnostic(
                      UnexpectedFilesInScreenshotBranch(unexpected_files),
                      Some(refstring))>>))))

RECURSIVE validate_build_from(_, _, _, _, _, _)
\* the loop of validate_build from the i-th ref of the HashMap's order on
validate_build_from(config, build_, ref_map, order, i, diagnostics) ==
    IF i > Len(order) THEN Ok(diagnostics)
    ELSE try(IF is_primary_ref(order[i])
             THEN validate_primary_ref(config, build_, ref_map, order[i],
                                       ref_map[order[i]])
             ELSE IF is_screenshots_ref(order[i])
             THEN validate_screenshots_ref(ref_map, order[i], ref_map[order[i]])
             ELSE Ok(<<>>),
             LAMBDA found :
                 validate_build_from(config, build_, ref_map, order, i + 1,
                                     diagnostics \o found))

\* review/validation.rs validate_build; the repository is its refs
validate_build(config, build_, ref_map, order, result) ==
    validate_build_from(config, build_, ref_map, order, 1, result.diagnostics)

\* review/moderation.rs ReviewItem, of the fields get_app_metadata reads
ReviewItem(name, summary) == [name |-> name, summary |-> summary]

\* review/moderation.rs get_app_metadata
get_app_metadata(root) ==
    bind(find(root, "component"), LAMBDA component :
        IF is_none(component) THEN Err(<<"No <component> in appstream">>)
        ELSE Ok(ReviewItem(find_text(unwrap(component), "name"),
                           find_text(unwrap(component), "summary"))))

\* a review_primary_ref that passes over a catalog it cannot load
review_primary_ref_lenient(refstring, checksum) ==
    IF arch_from_ref(refstring) = "x86_64"
    THEN bind(try(load_appstream(checksum, app_id_from_ref(refstring)),
                  LAMBDA x : get_app_metadata(x[2])),
              LAMBDA appstream :
                  IF appstream.ok THEN Ok(Some(appstream.val)) ELSE Ok(None))
    ELSE Ok(None)

\* review/moderation.rs review_primary_ref
review_primary_ref(refstring, checksum) ==
    IF arch_from_ref(refstring) = "x86_64"
    THEN bind(try(load_appstream(checksum, app_id_from_ref(refstring)),
                  LAMBDA x : get_app_metadata(x[2])),
              LAMBDA appstream :
                  IF appstream.ok THEN Ok(Some(appstream.val))
                  ELSE Err(new_failed_to_load_appstream(
                               get_appstream_path(app_id_from_ref(refstring)),
                               appstream.val, refstring)))
    ELSE Ok(None)

ReviewRequest(app_metadata) == [app_metadata |-> app_metadata]

\* review/moderation.rs ReviewRequestResponse
ReviewRequestResponse(requires_review) == [requires_review |-> requires_review]

RECURSIVE review_build_from(_, _, _, _, _)
\* the loop of review_build from the i-th ref on: the request and the result
review_build_from(ref_map, order, i, request, result) ==
    IF i > Len(order) THEN [request |-> request, result |-> result]
    ELSE IF ~is_primary_ref(order[i])
    THEN review_build_from(ref_map, order, i + 1, request, result)
    ELSE bind(review_primary_ref(order[i], ref_map[order[i]]), LAMBDA item :
        IF ~item.ok
        THEN review_build_from(ref_map, order, i + 1, request,
                 CheckResult(Append(result.diagnostics, item.val)))
        ELSE IF is_some(item.val)
        THEN review_build_from(ref_map, order, i + 1,
                 ReviewRequest((app_id_from_ref(order[i]) :> unwrap(item.val))
                                   @@ request.app_metadata),
                 result)
        ELSE review_build_from(ref_map, order, i + 1, request, result))

\* review/moderation.rs review_build
review_build(ref_map, order, result) ==
    review_build_from(ref_map, order, 1, ReviewRequest(EmptyMap), result)

\* ---- the commits drawn for a review run ----

ID(text) == XmlElement("id", None, text, <<>>)

ICON(type) == XmlElement("icon", Some(type), <<"icon.png">>, <<>>)

IMAGE(type, url) == XmlElement("image", type, url, <<>>)

SCREENSHOT(images) == XmlElement("screenshot", None, <<>>, images)

SCREENSHOTS(screenshot_list) == XmlElement("screenshots", None, <<>>, screenshot_list)

COMPONENT(children) == XmlElement("component", Some("desktop"), <<>>, children)

COMPONENTS(component_list) == XmlElement("components", None, <<>>, component_list)

\* the name of the directory of an app's screenshots in the screenshots branch
screenshots_dir(app_id) == app_id \o <<"-", "stable">>

\* a file of the screenshots branch, and its URL on the mirror
MIRRORED_FILE(app_id) == <<"", screenshots_dir(app_id), "/624x351/1_orig.png">>

MIRRORED_URL(app_id) == ImageUrl(MIRROR_PREFIX, MIRRORED_FILE(app_id))

UPSTREAM_URL == ImageUrl("https://example.com/", <<"", <<"shot">>, ".png">>)

\* a component with the id of the app, a name, a summary and a license
APP_COMPONENT(app_id, more) ==
    COMPONENT(<<ID(app_id), XmlElement("name", None, <<"Test">>, <<>>),
                XmlElement("summary", None, <<"A test application">>, <<>>),
                XmlElement("project_license", None, <<"MIT">>, <<>>)>> \o more)

\* a metadata file that appstream-util accepts
METAINFO_FILE(component) ==
    RepoFile(TRUE, TRUE, AppstreamContent(TRUE, component, Ok(TRUE)))

\* the catalog file the builder exports
CATALOG_FILE(component_list) ==
    RepoFile(TRUE, TRUE,
             File(TRUE, ENCODER_UPSTREAM,
                  XmlText(TRUE, FALSE, COMPONENTS(component_list))))

ICON_FILE == RepoFile(TRUE, TRUE, [png |-> TRUE])

\* an executable built for an architecture no ref of the build has
FOREIGN_EXECUTABLE == RepoFile(TRUE, TRUE, Executable(Some("EM_ARM")))

EXECUTABLE_PATH == <<"files/bin/", <<"test">>, "">>

\* a commit with a metainfo file and a catalog file of the same component,
\* with or without the local icon and the executable
PRIMARY_COMMIT(refstring, has_icon, more, has_executable) ==
    LET app_id == app_id_from_ref(refstring)
        component == APP_COMPONENT(app_id, more)
    IN  ReviewCommit(TRUE,
            (metainfo_path(app_id) :> METAINFO_FILE(component))
            @@ (get_appstream_path(app_id) :> CATALOG_FILE(<<component>>))
            @@ (IF has_icon THEN icon_path(app_id) :> ICON_FILE ELSE EmptyMap)
            @@ (IF has_executable THEN EXECUTABLE_PATH :> FOREIGN_EXECUTABLE
                ELSE EmptyMap))

\* a commit that passes every check, without screenshots
RC_VALID(refstring) == PRIMARY_COMMIT(refstring, TRUE, <<>>, FALSE)

\* a commit that passes every check when its screenshot is on the mirror
RC_MIRRORED(refstring) ==
    PRIMARY_COMMIT(refstring, TRUE,
        <<SCREENSHOTS(<<SCREENSHOT(
              <<IMAGE(Some("source"), UPSTREAM_URL),
                IMAGE(Some("thumbnail"),
                      MIRRORED_URL(app_id_from_ref(refstring)))>>)>>)>>,
        FALSE)

\* a remote icon only, and an executable of another architecture
RC_WARNINGS(refstring) ==
    PRIMARY_COMMIT(refstring, FALSE, <<ICON("remote")>>, TRUE)

\* no icon at all, in the metainfo file and in the catalog file
RC_NO_ICON(refstring) == PRIMARY_COMMIT(refstring, FALSE, <<>>, FALSE)

\* no icon at all, and the catalog file is the only metadata file
RC_NO_ICON_CATALOG_ONLY(refstring) ==
    ReviewCommit(TRUE,
        get_appstream_path(app_id_from_ref(refstring))
            :> CATALOG_FILE(<<APP_COMPONENT(app_id_from_ref(refstring), <<>>)>>))

\* no catalog file
RC_NO_CATALOG(refstring) ==
    ReviewCommit(TRUE,
        (metainfo_path(app_id_from_ref(refstring))
            :> METAINFO_FILE(APP_COMPONENT(app_id_from_ref(refstring), <<>>)))
        @@ (icon_path(app_id_from_ref(refstring)) :> ICON_FILE))

\* a metainfo file that is not XML, in a commit that has a remote icon only
RC_UNPARSEABLE(refstring) ==
    [RC_WARNINGS(refstring) EXCEPT
        !.files[metainfo_path(app_id_from_ref(refstring))] =
            RepoFile(TRUE, TRUE, AppstreamContent(FALSE, COMPONENT(<<>>), Ok(TRUE)))]

\* an appdata file whose content cannot be read to its end, in a commit that
\* has a remote icon only
RC_UNREADABLE_FILE(refstring) ==
    [RC_WARNINGS(refstring) EXCEPT
        !.files = (appdata_path(app_id_from_ref(refstring))
                      :> RepoFile(TRUE, FALSE, [png |-> FALSE])) @@ @]

\* an appdata file whose object is missing from the repository
RC_MISSING_OBJECT(refstring) ==
    [RC_WARNINGS(refstring) EXCEPT
        !.files = (appdata_path(app_id_from_ref(refstring))
                      :> RepoFile(FALSE, FALSE, [png |-> FALSE])) @@ @]

\* read_commit fails
RC_UNREADABLE(refstring) == ReviewCommit(FALSE, EmptyMap)

\* the screenshots branch with the screenshot of REF_APP
RC_SCREENSHOTS(refstring) ==
    ReviewCommit(TRUE, MIRRORED_FILE(app_id_from_ref(REF_APP)) :> ICON_FILE)

\* a screenshots commit with a file of no app of the build
RC_UNEXPECTED_FILES(refstring) ==
    ReviewCommit(TRUE, <<"", screenshots_dir(<<"org", "other", "App">>), "/1.png">>
                           :> ICON_FILE)

ReviewCommits(refstring) ==
    IF is_primary_ref(refstring) /\ refstring # REF_APP
    THEN {RC_VALID(refstring), RC_WARNINGS(refstring), RC_NO_ICON(refstring),
          RC_NO_ICON_CATALOG_ONLY(refstring), RC_NO_CATALOG(refstring)}
    ELSE IF is_primary_ref(refstring)
    THEN {RC_VALID(refstring), RC_MIRRORED(refstring), RC_WARNINGS(refstring),
          RC_NO_ICON(refstring), RC_NO_ICON_CATALOG_ONLY(refstring),
          RC_NO_CATALOG(refstring), RC_UNPARSEABLE(refstring),
          RC_UNREADABLE_FILE(refstring), RC_MISSING_OBJECT(refstring),
          RC_UNREADABLE(refstring)}
    ELSE IF is_screenshots_ref(refstring)
    THEN {RC_SCREENSHOTS(refstring), RC_UNEXPECTED_FILES(refstring)}
    ELSE {RC_VALID(refstring)}

REF_SCREENSHOTS == <<"screenshots", <<"x86_64">>, "", "">>

ReviewRefUniverse == <<REF_APP, REF_OTHER, REF_SCREENSHOTS, REF_LOCALE>>

\* a build-log URL, and a text that is not one
BUILD_LOG_URL == <<"https", ":", "//", "example.com", "/", "log">>

NOT_A_URL == <<"example.com", "/", "log">>

\* the builds flat-manager may report
ReviewBuilds == {BuildExtended(None, <<>>), BuildExtended(Some(BUILD_LOG_URL), <<>>)}

\* the repositories of one to MaxReviewRefs of these refs
MaxReviewRefs == 3

RECURSIVE RefMapsOver(_)
\* the repositories with exactly the refs of S
RefMapsOver(S) ==
    IF S = {} THEN {EmptyMap}
    ELSE LET r == CHOOSE x \in S : TRUE
         IN  {(r :> c) @@ m : <<c, m>> \in ReviewCommits(r) \X RefMapsOver(S \ {r})}

ReviewRefMaps ==
    UNION {RefMapsOver(present) :
           present \in {x \in SUBSET Range(ReviewRefUniverse) :
                           Cardinality(x) \in 1..MaxReviewRefs}}

\* the orders in which a HashMap may iterate over its keys
Orders(S) ==
    {o \in [1..Cardinality(S) -> S] : \A i, j \in DOMAIN o : i # j => o[i] # o[j]}

\* what get_build answers when the notification asks for the build: its app
\* id, when flat-manager knows one, and its repo
NotifiedBuilds ==
    {Err(<<IO_ERROR>>),
     Ok([app_id |-> None, repo |-> "stable"]),
     Ok([app_id |-> Some(<<"org", "example", "App">>), repo |-> "stable"])}

\* BuildNotificationRequest of the notification
BuildNotificationRequest(app_id, build_repo, diagnostics) ==
    [app_id |-> app_id, build_repo |-> build_repo, diagnostics |-> diagnostics]

\* post_email_notification that writes only about errors
post_email_notification_errors_only(result, build_, delivered) ==
    IF ~any_error(result) THEN [requests |-> <<>>, ret |-> Ok("()")]
    ELSE IF ~build_.ok THEN [requests |-> <<>>, ret |-> build_]
    ELSE IF is_none(build_.val.app_id) THEN [requests |-> <<>>, ret |-> Ok("()")]
    ELSE [requests |-> <<BuildNotificationRequest(unwrap(build_.val.app_id),
                                                  build_.val.repo,
                                                  result.diagnostics)>>,
          ret |-> IF delivered THEN Ok("()")
                  ELSE Err(<<"Failed to contact backend">>)]

\* RegularConfig::post_email_notification: the requests it posts and what it
\* returns, given the answer of get_build and whether the backend accepts
\* the request within the attempts of retry
post_email_notification(result, build_, delivered) ==
    IF result.diagnostics = <<>> THEN [requests |-> <<>>, ret |-> Ok("()")]
    ELSE IF ~build_.ok THEN [requests |-> <<>>, ret |-> build_]
    ELSE IF is_none(build_.val.app_id) THEN [requests |-> <<>>, ret |-> Ok("()")]
    ELSE [requests |-> <<BuildNotificationRequest(unwrap(build_.val.app_id),
                                                  build_.val.repo,
                                                  result.diagnostics)>>,
          ret |-> IF delivered THEN Ok("()")
                  ELSE Err(<<"Failed to contact backend">>)]

\* the review run after it has posted its status: the notification email is
\* attempted with the result of the run, and its error is logged, not
\* returned
Notified(r, build_, delivered) ==
    [r EXCEPT !.notification =
        Some([build |-> build_] @@
             post_email_notification(r.result, build_, delivered))]

ReviewUnchanged == UNCHANGED <<fnVars, publishVars>>

ReviewInit ==
    /\ rv \in [pc : {"start"}, observe_only : BOOLEAN, repo : ReviewRefMaps,
               config : {RegularConfig(Ok(TRUE)), RegularConfig(Ok(FALSE))},
               build : ReviewBuilds, late : {{}},
               refs : {EmptyMap}, order : {<<>>},
               result : {CheckResult(<<>>)}, collected : {FALSE},
               request : {None}, statuses : {<<>>}, submitted : {<<>>},
               response : {None}, notification : {None}, ret : {None}]
    /\ PublishIdle
    /\ FnIdle

Return(r, value) == [r EXCEPT !.pc = "returned", !.ret = Some(value)]

\* do_review lines 20-32: the repository, list_refs, get_build
ReviewOpen ==
    /\ rv.pc = "start"
    /\ \E order \in Orders(DOMAIN rv.repo) :
           rv' = [rv EXCEPT !.pc = "validate", !.refs = rv.repo, !.order = order]
    /\ ReviewUnchanged

\* one of the ? of lines 22-26 returns the error
ReviewOpenFail ==
    /\ rv.pc = "start"
    /\ rv' = Return(rv, Err(IO_ERROR))
    /\ ReviewUnchanged

\* do_review lines 34-40: validate_build and the check for errors
ValidateBuild ==
    /\ rv.pc = "validate"
    /\ LET found == validate_build(rv.config, rv.build, rv.refs, rv.order,
                                   rv.result)
       IN  IF ~found.ok THEN rv' = Return(rv, Err(found.val))
           ELSE rv' = [rv EXCEPT
                          !.result = CheckResult(found.val),
                          !.pc = IF any_error(CheckResult(found.val))
                                 THEN "mark_failure" ELSE "review_build"]
    /\ ReviewUnchanged

\* mark_failure of line 38 or 46 posts the status, the notification is
\* attempted, and do_review returns Ok
MarkFailure ==
    /\ rv.pc = "mark_failure"
    /\ \E build_ \in NotifiedBuilds, delivered \in BOOLEAN :
           rv' = Return(Notified([rv EXCEPT !.statuses =
                                     Append(@, mark_failure(VALIDATIONS_FAILED,
                                                            rv.result,
                                                            rv.observe_only))],
                                 build_, delivered),
                        Ok("()"))
    /\ ReviewUnchanged

\* set_check_status fails on every attempt of retry and ? returns the error
SetCheckStatusFail ==
    /\ rv.pc \in {"mark_failure", "require_review", "mark_still_pending"}
    /\ rv' = Return(rv, Err("reqwest::Error"))
    /\ ReviewUnchanged

\* the repository when read_commit fails on the commits of some refs
failing_reads(ref_map, failing) ==
    [r \in DOMAIN ref_map |->
        IF r \in failing THEN ReviewCommit(FALSE, ref_map[r].files)
        ELSE ref_map[r]]

\* do_review lines 42-48: review_build and the second check for errors; the
\* repository is read again, and a read that succeeded for the validation
\* may fail now
ReviewBuild ==
    /\ rv.pc = "review_build"
    /\ \E failing \in SUBSET {r \in DOMAIN rv.refs : is_primary_ref(r)} :
           LET built == review_build(failing_reads(rv.refs, failing), rv.order,
                                     rv.result)
           IN  rv' = [rv EXCEPT
                         !.late = failing,
                         !.collected = TRUE,
                         !.request = Some(built.request),
                         !.result = built.result,
                         !.pc = IF any_error(built.result)
                                THEN "mark_failure" ELSE "submit"]
    /\ ReviewUnchanged

\* review_build: get_build_id or get_job_id fails
ReviewBuildFail ==
    /\ rv.pc = "review_build"
    /\ rv' = Return(rv, Err("BUILD_ID"))
    /\ ReviewUnchanged

\* submit_review_request lines 61-78: the backend answers the request
SubmitReviewRequest ==
    /\ rv.pc = "submit"
    /\ \E requires_review \in BOOLEAN :
           rv' = [rv EXCEPT
                     !.submitted = Append(@, unwrap(rv.request)),
                     !.response = Some(ReviewRequestResponse(requires_review)),
                     !.pc = IF requires_review THEN "require_review"
                            ELSE "mark_still_pending"]
    /\ ReviewUnchanged

\* submit_review_request: every attempt of retry fails
SubmitReviewRequestFail ==
    /\ rv.pc = "submit"
    /\ rv' = Return(rv, Err("Failed to contact backend"))
    /\ ReviewUnchanged

\* submit_review_request lines 80-85
RequireReview ==
    /\ rv.pc = "require_review"
    /\ \E build_ \in NotifiedBuilds, delivered \in BOOLEAN :
           rv' = Return(Notified([rv EXCEPT !.statuses =
                                     Append(@, require_review(REQUIRES_REVIEW,
                                                              rv.result,
                                                              rv.observe_only))],
                                 build_, delivered),
                        Ok("()"))
    /\ ReviewUnchanged

\* a branch that returns without posting the status
MarkStillPendingUnposted ==
    /\ rv.pc = "mark_still_pending"
    /\ rv' = Return(rv, Ok("()"))
    /\ ReviewUnchanged

\* submit_review_request lines 86-88
MarkStillPending ==
    /\ rv.pc = "mark_still_pending"
    /\ \E build_ \in NotifiedBuilds, delivered \in BOOLEAN :
           rv' = Return(Notified([rv EXCEPT !.statuses =
                                     Append(@, mark_still_pending(rv.result,
                                                                  rv.observe_only))],
                                 build_, delivered),
                        Ok("()"))
    /\ ReviewUnchanged

ReviewNext ==
    \/ ReviewOpen \/ ReviewOpenFail \/ ValidateBuild \/ MarkFailure
    \/ SetCheckStatusFail \/ ReviewBuild \/ ReviewBuildFail
    \/ SubmitReviewRequest \/ SubmitReviewRequestFail \/ RequireReview
    \/ MarkStillPending

SpecReview == ReviewInit /\ [][ReviewNext]_vars

\* the diagnostics validate_build finds on the refs of the repository
FoundBy(refstring) ==
    IF is_primary_ref(refstring)
    THEN validate_primary_ref(rv.config, rv.build, rv.repo, refstring,
                              rv.repo[refstring])
    ELSE IF is_screenshots_ref(refstring)
    THEN validate_screenshots_ref(rv.repo, refstring, rv.repo[refstring])
    ELSE Ok(<<>>)

\* what validate_build finds on each ref of the repository
Found == [r \in DOMAIN rv.repo |-> FoundBy(r)]

AllOk(found) == \A r \in DOMAIN found : found[r].ok

DiagnosticsIn(found) == UNION {Range(found[r].val) : r \in DOMAIN found}

RECURSIVE SumLenOf(_, _)
SumLenOf(found, S) ==
    IF S = {} THEN 0
    ELSE LET r == CHOOSE x \in S : TRUE
         IN  Len(found[r].val) + SumLenOf(found, S \ {r})

ValidationOk == AllOk(Found)

ValidationFound == DiagnosticsIn(Found)

SumLen(S) == SumLenOf(Found, S)

\* validation has run and found a diagnostic of error severity
ValidationFailed ==
    /\ rv.pc \notin {"start", "validate"}
    /\ rv.refs # EmptyMap
    /\ ValidationOk
    /\ \E d \in ValidationFound : ~d.is_warning

Answered == rv.response # None

\* C11: when no diagnostic is an error and the moderation backend answers,
\* the one status posted is ReviewRequired with the fixed reason if the
\* response's requires_review is true, and Pending if it is false, with the
\* results of the run; the request was submitted once.
C11_ModerationAnswer ==
    Answered =>
        /\ ~any_error(rv.result)
        /\ rv.submitted = <<unwrap(rv.request)>>
        /\ rv.pc \in {"require_review", "mark_still_pending", "returned"}
        /\ rv.pc = "require_review" <=>
              (unwrap(rv.response).requires_review /\ rv.pc # "returned")
        /\ rv.pc # "returned" => rv.statuses = <<>>
        /\ rv.pc = "returned" /\ unwrap(rv.ret).ok =>
              rv.statuses =
                  <<ReviewRequestArgs(
                        IF unwrap(rv.response).requires_review
                        THEN [status |-> "ReviewRequired",
                              reason |-> Some(REQUIRES_REVIEW)]
                        ELSE [status |-> "Pending", reason |-> None],
                        serde_json_to_string(rv.result))>>
        /\ rv.pc = "returned" /\ ~unwrap(rv.ret).ok => rv.statuses = <<>>

\* a run in which the backend required a review, reported with its warnings
C11_Witness ==
    /\ Answered /\ unwrap(rv.response).requires_review
    /\ rv.pc = "returned" /\ unwrap(rv.ret).ok
    /\ rv.statuses[1].new_status.status = "ReviewRequired"
    /\ rv.result.diagnostics # <<>>


\* validate_build has returned
Validated == rv.refs # EmptyMap /\ rv.pc # "validate"

\* the per-path metadata files of a ref that are present and cannot be read
\* or do not parse
BrokenPaths(refstring) ==
    {p \in {appdata_path(app_id_from_ref(refstring)),
            metainfo_path(app_id_from_ref(refstring))} :
        /\ query_exists(rv.repo[refstring].files, p)
        /\ LET content == read_repo_file(rv.repo[refstring].files, p)
           IN  ~content.ok \/ ~from_reader(content.val).ok}

\* the commit of a ref without its broken per-path metadata files
WithoutBroken(refstring) ==
    [rv.repo[refstring] EXCEPT
        !.files = [p \in DOMAIN @ \ BrokenPaths(refstring) |-> @[p]]]

\* C12: when every commit of the build can be read, a per-path metadata
\* file that is present and cannot be read or parsed does not abort the
\* validation: the result holds a FailedToLoadAppstream diagnostic for that
\* path and ref, and every diagnostic the other checks of the ref produce
\* (those of the same commit without the file).
C12_Isolation ==
    (Validated /\ \A r \in DOMAIN rv.repo : rv.repo[r].readable) =>
        \A r \in {x \in DOMAIN rv.repo : is_primary_ref(x)} :
            BrokenPaths(r) # {} =>
                /\ FoundBy(r).ok
                /\ \A p \in BrokenPaths(r) :
                       \E d \in Range(rv.result.diagnostics) :
                           /\ d.refstring = Some(r) /\ ~d.is_warning
                           /\ d.info.category = "FailedToLoadAppstream"
                           /\ d.info.path = p
                /\ Range(validate_primary_ref(rv.config, rv.build, rv.repo, r,
                                              WithoutBroken(r)).val)
                       \subseteq Range(rv.result.diagnostics)


\* every diagnostic of the validation is a warning
OnlyWarningsFound ==
    Validated /\ ValidationOk /\ \A d \in ValidationFound : d.is_warning

\* the metadata collection has run, and every diagnostic of the run is a
\* warning
OnlyWarnings ==
    rv.collected /\ \A d \in Range(rv.result.diagnostics) : d.is_warning

\* C13: a run whose validation produces only warnings goes on to collect
\* the moderation metadata, and when the collection adds no error either,
\* the review request is submitted; no status other than Pending or
\* ReviewRequired is posted, and the status posted carries every warning.
C13_WarningsDoNotBlock ==
    LET found == Found
    IN  /\ (/\ Validated /\ ~rv.collected
             /\ AllOk(found) /\ \A d \in DiagnosticsIn(found) : d.is_warning) =>
               rv.pc \in {"review_build", "returned"} /\ rv.statuses = <<>>
        /\ OnlyWarnings =>
               /\ rv.pc \in {"submit", "require_review", "mark_still_pending",
                             "returned"}
               /\ Range(rv.result.diagnostics) = DiagnosticsIn(found)
               /\ Len(rv.result.diagnostics) = SumLenOf(found, DOMAIN rv.repo)
               /\ rv.pc \in {"require_review", "mark_still_pending"} =>
                      rv.submitted = <<unwrap(rv.request)>>
               /\ \A i \in DOMAIN rv.statuses :
                      /\ rv.statuses[i].new_status.status \in {"Pending", "ReviewRequired"}
                      /\ rv.statuses[i].new_results = serde_json_to_string(rv.result)
               /\ (rv.pc = "returned" /\ unwrap(rv.ret).ok) =>
                      Len(rv.statuses) = 1 /\ rv.submitted = <<unwrap(rv.request)>>

\* a run with three warnings of one ref that ended with Pending
C13_Witness ==
    /\ OnlyWarnings
    /\ rv.pc = "returned" /\ unwrap(rv.ret).ok
    /\ Len(rv.result.diagnostics) = 3
    /\ rv.statuses[1].new_status.status = "Pending"
    /\ Len(rv.statuses[1].new_results.diagnostics) = 3


\* what load_appstream and get_app_metadata return for a ref when the
\* moderation reads the repository
MetadataOf(refstring) ==
    LET loaded == load_appstream(failing_reads(rv.refs, rv.late)[refstring],
                                 app_id_from_ref(refstring))
    IN  IF loaded.ok THEN get_app_metadata(loaded.val[2]) ELSE loaded

\* the primary x86_64 refs whose moderation metadata could not be collected
LateFailures ==
    {r \in {x \in DOMAIN rv.refs : is_primary_ref(x) /\ arch_from_ref(x) = "x86_64"} :
        ~MetadataOf(r).ok}

Reported == rv.pc = "returned" /\ rv.statuses # <<>>

\* the status of the branch the decision took
BranchStatus ==
    IF any_error(rv.result)
    THEN [status |-> IF rv.observe_only THEN "PassedWithWarnings" ELSE "Failed",
          reason |-> Some(VALIDATIONS_FAILED)]
    ELSE IF unwrap(rv.response).requires_review
    THEN [status |-> "ReviewRequired", reason |-> Some(REQUIRES_REVIEW)]
    ELSE [status |-> "Pending", reason |-> None]

-----------------------------------------------------------------------------
(* The component checks applied to drawn components                          *)

\* the longest list of <id> and of <icon> elements of a drawn component
MaxIds == 2

MaxIcons == 2

\* texts of an <id>: the app ids of the two refs, with and without the
\* desktop suffix, and an id that only starts with one of them
IdTexts ==
    {app_id_from_ref(REF_APP), Append(app_id_from_ref(REF_APP), "desktop"),
     app_id_from_ref(REF_OTHER), Append(app_id_from_ref(REF_APP), "Devel")}

\* the type attribute of an <icon>, when it has one
IconTypes == {None, Some("remote"), Some("stock")}

\* the components with up to MaxIds ids and MaxIcons icons
DrawnComponents ==
    {COMPONENT([i \in DOMAIN ids |-> ID(ids[i])]
               \o [i \in DOMAIN types |->
                      XmlElement("icon", types[i], <<"icon.png">>, <<>>)]) :
        <<ids, types>> \in SeqsUpTo(IdTexts, MaxIds) \X SeqsUpTo(IconTypes, MaxIcons)}

ComponentInit ==
    /\ fnIn \in [component : DrawnComponents,
                 refstring : {REF_APP, REF_OTHER},
                 icon_file : BOOLEAN]
    /\ fnOut = [checked |-> None, diagnostics |-> None]
    /\ fnPc = "start"
    /\ PublishIdle
    /\ ReviewIdle

\* the files of the ref's commit: the 128x128 icon or nothing
ComponentFiles ==
    IF fnIn.icon_file
    THEN icon_path(app_id_from_ref(fnIn.refstring)) :> ICON_FILE
    ELSE EmptyMap

\* check_appstream_component_id applied to the component
CheckAppstreamComponentId ==
    /\ fnPc = "start"
    /\ fnOut' = [fnOut EXCEPT !.checked =
           Some(check_appstream_component_id(fnIn.component, fnIn.refstring))]
    /\ fnPc' = "checked"
    /\ UNCHANGED <<fnIn, publishVars, rv>>

\* validate_appstream_component applied to the component, with the
\* has_local_icon that validate_primary_ref computes from the commit
ValidateAppstreamComponent ==
    /\ fnPc = "start"
    /\ fnOut' = [fnOut EXCEPT !.diagnostics =
           Some(validate_appstream_component(
                    fnIn.component, fnIn.refstring,
                    get_appstream_path(app_id_from_ref(fnIn.refstring)),
                    query_exists(ComponentFiles,
                                 icon_path(app_id_from_ref(fnIn.refstring)))))]
    /\ fnPc' = "validated"
    /\ UNCHANGED <<fnIn, publishVars, rv>>

ComponentNext == CheckAppstreamComponentId \/ ValidateAppstreamComponent

SpecComponent == ComponentInit /\ [][ComponentNext]_vars

\* the diagnostics of the given categories among those of the component,
\* in their order
DiagnosticsOf(categories) ==
    SelectSeq(unwrap(fnOut.diagnostics).val,
              LAMBDA d : d.info.category \in categories)

\* the component declares an icon of type remote
DeclaresRemoteIcon ==
    \E i \in DOMAIN fnIn.component.children :
        /\ fnIn.component.children[i].tag = "icon"
        /\ fnIn.component.children[i].type = Some("remote")

\* C16: validate_appstream_component gives no icon diagnostic for a ref with
\* a local 128x128 icon; without one it gives exactly one: a NoLocalIcon
\* warning when the component declares an icon of type remote, a MissingIcon
\* error when it declares none; never both.
C16_IconPolicy ==
    fnPc = "validated" =>
        /\ unwrap(fnOut.diagnostics).ok
        /\ fnIn.icon_file => DiagnosticsOf({"NoLocalIcon", "MissingIcon"}) = <<>>
        /\ (~fnIn.icon_file /\ DeclaresRemoteIcon) =>
               DiagnosticsOf({"NoLocalIcon", "MissingIcon"}) =
                   <<ValidationDiagnostic(
                         Some(fnIn.refstring), TRUE,
                         [category |-> "NoLocalIcon",
                          appstream_path |->
                              get_appstream_path(app_id_from_ref(fnIn.refstring))])>>
        /\ (~fnIn.icon_file /\ ~DeclaresRemoteIcon) =>
               DiagnosticsOf({"NoLocalIcon", "MissingIcon"}) =
                   <<ValidationDiagnostic(
                         Some(fnIn.refstring), FALSE,
                         [category |-> "MissingIcon",
                          appstream_path |->
                              get_appstream_path(app_id_from_ref(fnIn.refstring))])>>

\* a component with a stock and a remote icon, of a ref without local icon:
\* one warning and nothing else
C16_Witness ==
    /\ fnPc = "validated"
    /\ ~fnIn.icon_file
    /\ DeclaresRemoteIcon
    /\ \E i \in DOMAIN fnIn.component.children :
           fnIn.component.children[i].type = Some("stock")
    /\ Len(unwrap(fnOut.diagnostics).val) = 1
    /\ unwrap(fnOut.diagnostics).val[1].is_warning

\* the texts of the <id> elements of the component
IdsOf == [i \in DOMAIN find_all(fnIn.component, "id") |->
             find_all(fnIn.component, "id")[i].text]

\* the component has one id, the app id of the ref or that id and ".desktop"
IdMatches ==
    /\ Len(IdsOf) = 1
    /\ \/ IdsOf[1] = app_id_from_ref(fnIn.refstring)
       \/ IdsOf[1] = app_id_from_ref(fnIn.refstring) \o <<"desktop">>

\* C18: check_appstream_component_id returns Ok exactly when the component
\* has one <id> whose text is the app id of the ref or the app id followed
\* by ".desktop"; for every other component validate_appstream_component
\* reports one FailedToLoadAppstream diagnostic with the error of the check,
\* of error severity, and never one that is a warning.
C18_ComponentId ==
    /\ fnPc = "checked" => (unwrap(fnOut.checked).ok <=> IdMatches)
    /\ fnPc = "validated" =>
           LET found == DiagnosticsOf({"FailedToLoadAppstream"})
           IN  IF IdMatches THEN found = <<>>
               ELSE /\ Len(found) = 1
                    /\ ~found[1].is_warning
                    /\ found[1].refstring = Some(fnIn.refstring)
                    /\ found[1].info.path =
                           get_appstream_path(app_id_from_ref(fnIn.refstring))
                    /\ found[1].info.error =
                           IF Len(IdsOf) = 0
                           THEN <<"Appstream component does not have an ID">>
                           ELSE IF Len(IdsOf) > 1
                           THEN <<"Appstream component has multiple IDs">>
                           ELSE <<"Appstream component ID (">> \o IdsOf[1]
                                \o <<") does not match expected ID (">>
                                \o app_id_from_ref(fnIn.refstring) \o <<")">>

\* the id of another app is refused
C18_Witness ==
    /\ fnPc = "checked"
    /\ fnIn.refstring = REF_OTHER
    /\ IdsOf = <<app_id_from_ref(REF_APP)>>
    /\ ~unwrap(fnOut.checked).ok


-----------------------------------------------------------------------------
(* The screenshot-mirror check applied to drawn catalogs                     *)

\* the longest list of <screenshot> elements of a drawn catalog
MaxScreenshots == 2

\* a thumbnail on the mirror whose file the screenshots branch does not have
MISSING_URL(app_id) ==
    ImageUrl(MIRROR_PREFIX, <<"", screenshots_dir(app_id), "/624x351/2_orig.png">>)

\* a second URL outside the mirror
UPSTREAM_THUMBNAIL_URL == ImageUrl("https://example.com/", <<"", <<"thumb">>, ".png">>)

\* the <screenshot> elements drawn: with and without a source image, with
\* thumbnails on the mirror, missing from it, and elsewhere
ScreenshotShapes ==
    LET app_id == app_id_from_ref(REF_APP)
        source == IMAGE(Some("source"), UPSTREAM_URL)
        untyped == IMAGE(None, UPSTREAM_URL)
        mirrored == IMAGE(Some("thumbnail"), MIRRORED_URL(app_id))
        missing == IMAGE(Some("thumbnail"), MISSING_URL(app_id))
        elsewhere == IMAGE(Some("thumbnail"), UPSTREAM_THUMBNAIL_URL)
    IN  {SCREENSHOT(<<>>), SCREENSHOT(<<source>>),
         SCREENSHOT(<<source, mirrored>>), SCREENSHOT(<<source, missing>>),
         SCREENSHOT(<<mirrored, untyped, elsewhere>>),
         SCREENSHOT(<<source, missing, elsewhere>>),
         SCREENSHOT(<<elsewhere>>), SCREENSHOT(<<missing>>)}

\* the repository without a screenshots branch, and with a branch that has
\* the mirrored file, that is empty, and whose commit cannot be read
MirrorRepos ==
    {EmptyMap,
     REF_SCREENSHOTS :> RC_SCREENSHOTS(REF_SCREENSHOTS),
     REF_SCREENSHOTS :> ReviewCommit(TRUE, EmptyMap),
     REF_SCREENSHOTS :> RC_UNREADABLE(REF_SCREENSHOTS)}

MirrorInit ==
    /\ fnIn \in [screenshots : {SCREENSHOTS(l) :
                                   l \in SeqsUpTo(ScreenshotShapes, MaxScreenshots)},
                 repo : MirrorRepos,
                 refstring : {REF_APP}]
    /\ fnOut = None
    /\ fnPc = "start"
    /\ PublishIdle
    /\ ReviewIdle

\* validate_appstream_screenshot_mirror applied to the <screenshots> element
ValidateAppstreamScreenshotMirror ==
    /\ fnPc = "start"
    /\ fnOut' = Some(validate_appstream_screenshot_mirror(
                         fnIn.repo, fnIn.refstring, fnIn.screenshots,
                         get_appstream_path(app_id_from_ref(fnIn.refstring))))
    /\ fnPc' = "mirrored"
    /\ UNCHANGED <<fnIn, publishVars, rv>>

MirrorNext == ValidateAppstreamScreenshotMirror

SpecMirror == MirrorInit /\ [][MirrorNext]_vars

\* the images of a <screenshot> of the given types
ImagesOf(screenshot, types) ==
    {screenshot.children[i] :
        i \in {j \in DOMAIN screenshot.children :
                  /\ screenshot.children[j].tag = "image"
                  /\ screenshot.children[j].type \in types}}

DeclaredScreenshots == Range(fnIn.screenshots.children)

\* the URLs to record as not mirrored: the source of a screenshot without
\* thumbnail, and every thumbnail outside the mirror
NotMirrored ==
    {s.children[i].text :
        <<s, i>> \in {<<t, j>> \in DeclaredScreenshots \X (1..3) :
            /\ j \in DOMAIN t.children
            /\ ImagesOf(t, {Some("thumbnail")}) = {}
            /\ t.children[j].type \in {None, Some("source")}
            /\ \A k \in 1..(j - 1) :
                   t.children[k].type \notin {None, Some("source")}}}
    \cup {im.text : im \in {x \in UNION {ImagesOf(s, {Some("thumbnail")}) :
                                            s \in DeclaredScreenshots} :
                               x.text[1] # MIRROR_PREFIX}}

\* the URLs to record as not found: every thumbnail on the mirror whose file
\* the screenshots branch does not have
NotFound ==
    {im.text : im \in {x \in UNION {ImagesOf(s, {Some("thumbnail")}) :
                                       s \in DeclaredScreenshots} :
                          /\ x.text[1] = MIRROR_PREFIX
                          /\ x.text[2] \notin DOMAIN fnIn.repo[REF_SCREENSHOTS].files}}

\* the URLs a diagnostic of the category lists, if the result has one
ListedBy(category) ==
    UNION {Range(d.info.urls) :
              d \in {x \in Range(unwrap(fnOut).val) : x.info.category = category}}

\* the number of diagnostics of the category
CountOf(category) ==
    Cardinality({i \in DOMAIN unwrap(fnOut).val :
                    unwrap(fnOut).val[i].info.category = category})

\* C19: without a screenshots/<arch> branch the only diagnostic is one
\* NoScreenshotBranch error; with a branch, the source URL of every
\* screenshot without thumbnail and every thumbnail URL outside the mirror
\* are listed by one ScreenshotNotMirrored error, every thumbnail URL on the
\* mirror whose file the branch does not have is listed by one
\* MirroredScreenshotNotFound error, and there is no other diagnostic.
C19_ScreenshotMirror ==
    (fnPc = "mirrored" /\ unwrap(fnOut).ok) =>
        IF REF_SCREENSHOTS \notin DOMAIN fnIn.repo
        THEN unwrap(fnOut).val =
                 <<ValidationDiagnostic(
                       Some(fnIn.refstring), FALSE,
                       [category |-> "NoScreenshotBranch",
                        expected_branch |-> REF_SCREENSHOTS])>>
        ELSE /\ \A i \in DOMAIN unwrap(fnOut).val :
                    /\ ~unwrap(fnOut).val[i].is_warning
                    /\ unwrap(fnOut).val[i].info.category \in
                           {"ScreenshotNotMirrored", "MirroredScreenshotNotFound"}
             /\ CountOf("ScreenshotNotMirrored") = IF NotMirrored = {} THEN 0 ELSE 1
             /\ CountOf("MirroredScreenshotNotFound") = IF NotFound = {} THEN 0 ELSE 1
             /\ ListedBy("ScreenshotNotMirrored") = NotMirrored
             /\ ListedBy("MirroredScreenshotNotFound") = NotFound

\* every drawn <screenshot> with a thumbnail has a source image
SourcesDeclared ==
    \A s \in DeclaredScreenshots :
        ImagesOf(s, {Some("thumbnail")}) # {} => ImagesOf(s, {None, Some("source")}) # {}

\* the same statement for the catalogs whose screenshots all have a source
\* image
C19_WithSources == SourcesDeclared => C19_ScreenshotMirror


-----------------------------------------------------------------------------
(* The build-log URL policy applied to drawn builds                          *)

\* the longest list of build refs of a drawn build
MaxBuildRefs == 2

\* the build log of one ref
REF_LOG_URL == <<"https", ":", "//", "example.com", "/", "log", "/", "x86_64">>

\* the build_log_url of a build or of a build ref: none, a URL, or a text
\* that is no URL
BuildLogUrls == {None, Some(BUILD_LOG_URL), Some(REF_LOG_URL), Some(NOT_A_URL)}

\* the lists of up to MaxBuildRefs build refs, one at most for a ref
DrawnBuildRefs ==
    {l \in SeqsUpTo({BuildRef(r, u) : <<r, u>> \in {REF_APP, REF_OTHER} \X BuildLogUrls},
                    MaxBuildRefs) :
        \A i, j \in DOMAIN l : i # j => l[i].ref_name # l[j].ref_name}

\* the configurations of a review run with the build flat-manager reports,
\* and that of the validate command with its own
BuildLogInputs ==
    ({RegularConfig(Ok(TRUE)), RegularConfig(Ok(FALSE)),
      RegularConfig(Err(<<"Failed to contact backend">>))}
         \X {BuildExtended(u, l) : <<u, l>> \in BuildLogUrls \X DrawnBuildRefs})
    \cup {<<ValidateArgs, ValidateArgsBuild>>}

BuildLogInit ==
    /\ fnIn \in [input : BuildLogInputs, refstring : {REF_APP, REF_OTHER}]
    /\ fnOut = None
    /\ fnPc = "start"
    /\ PublishIdle
    /\ ReviewIdle

\* validate_appstream_catalog_file applied to a commit that passes every
\* other check
ValidateAppstreamCatalogFile ==
    /\ fnPc = "start"
    /\ fnOut' = Some(validate_appstream_catalog_file(
                         fnIn.input[1], fnIn.input[2], EmptyMap,
                         RC_VALID(fnIn.refstring), fnIn.refstring, TRUE))
    /\ fnPc' = "validated"
    /\ UNCHANGED <<fnIn, publishVars, rv>>

BuildLogNext == ValidateAppstreamCatalogFile

SpecBuildLog == BuildLogInit /\ [][BuildLogNext]_vars

\* the app is determined to be free software
IsFreeSoftware ==
    fnIn.input[1].is_free_software.ok /\ fnIn.input[1].is_free_software.val

\* the URLs set on the build refs of exactly this refstring
Overrides ==
    {fnIn.input[2].build_refs[i].build_log_url :
        i \in {j \in DOMAIN fnIn.input[2].build_refs :
                  fnIn.input[2].build_refs[j].ref_name = fnIn.refstring}}
    \ {None}

\* the candidate URL: the override of the ref if one is set, else the URL of
\* the build
Candidate ==
    IF Overrides # {} THEN CHOOSE u \in Overrides : TRUE
    ELSE fnIn.input[2].build.build_log_url

\* C20: the catalog check of a free-software app yields one
\* MissingBuildLogUrl error exactly when the candidate URL (the override of
\* this ref if set, else the build's) is absent or not a valid URL; for an
\* app that is not free software, as always under the validate command, it
\* yields none.
C20_BuildLogUrl ==
    fnPc = "validated" =>
        /\ unwrap(fnOut).ok <=> fnIn.input[1].is_free_software.ok
        /\ unwrap(fnOut).ok =>
               unwrap(fnOut).val =
                   IF IsFreeSoftware
                      /\ Candidate \notin {Some(BUILD_LOG_URL), Some(REF_LOG_URL)}
                   THEN <<ValidationDiagnostic(Some(fnIn.refstring), FALSE,
                                               [category |-> "MissingBuildLogUrl"])>>
                   ELSE <<>>

\* a free-software app whose ref has an override that is no URL, in a build
\* with a valid URL: the override is the candidate and the error is reported
C20_Witness ==
    /\ fnPc = "validated"
    /\ IsFreeSoftware
    /\ Overrides = {Some(NOT_A_URL)}
    /\ fnIn.input[2].build.build_log_url = Some(BUILD_LOG_URL)
    /\ Len(unwrap(fnOut).val) = 1
    /\ unwrap(fnOut).val[1].info.category = "MissingBuildLogUrl"


-----------------------------------------------------------------------------
(* The end-to-end scenario of the review run                                 *)

\* a build with two primary refs: REF_OTHER with the given commit, REF_APP
\* with a local icon and a screenshot that is on the mirror; the app is not
\* free software or the build has its log URL
TwoRefBuild(commit) ==
    /\ rv.repo = (REF_OTHER :> commit) @@ (REF_APP :> RC_MIRRORED(REF_APP))
                 @@ (REF_SCREENSHOTS :> RC_SCREENSHOTS(REF_SCREENSHOTS))
    /\ \/ ~rv.config.is_free_software.val
       \/ rv.build.build.build_log_url = Some(BUILD_LOG_URL)

\* the diagnostics of the result that are about the ref, in their order
ContributedBy(refstring) ==
    SelectSeq(rv.result.diagnostics, LAMBDA d : d.refstring = Some(refstring))

\* the metadata documents a commit has, in the order they are validated
DocumentsOf(refstring, commit) ==
    SelectSeq(<<appdata_path(app_id_from_ref(refstring)),
                metainfo_path(app_id_from_ref(refstring)),
                get_appstream_path(app_id_from_ref(refstring))>>,
              LAMBDA p : p \in DOMAIN commit.files)

-----------------------------------------------------------------------------
(* The architecture scan applied to drawn commits                            *)

\* the most files a drawn commit has
MaxFiles == 2

\* a ref of an architecture the scan has no codes for
REF_ARM == <<"app", <<"org", "flatpak", "Test">>, "arm", "stable">>

\* the paths of the drawn files: two under files/, one beside it
ScanPaths ==
    {EXECUTABLE_PATH, <<"files/lib/", <<"libtest">>, ".so">>,
     <<"export/bin/", <<"test">>, "">>}

\* the files drawn: of each content type, with each machine code or a
\* header that does not parse, and one whose object cannot be loaded
ScanFiles ==
    {RepoFile(TRUE, TRUE, Binary(mime, e_machine)) :
        <<mime, e_machine>> \in
            {"application/x-executable", "application/x-sharedlib", "text/plain"}
            \X {None, Some("EM_X86_64"), Some("EM_386"), Some("EM_AARCH64"),
                Some("EM_ARM")}}
    \cup {RepoFile(FALSE, FALSE, Binary("application/x-executable",
                                        Some("EM_ARM")))}

\* the commits with up to MaxFiles of these files
ScanCommits ==
    UNION {[paths -> ScanFiles] :
              paths \in {x \in SUBSET ScanPaths : Cardinality(x) <= MaxFiles}}

ScanInit ==
    /\ fnIn \in [ref_files : ScanCommits, refstring : {REF_APP, REF_OTHER, REF_ARM}]
    /\ fnOut = None
    /\ fnPc = "start"
    /\ PublishIdle
    /\ ReviewIdle

\* review_files applied to the root of the commit
ReviewFiles ==
    /\ fnPc = "start"
    /\ fnOut' = Some(review_files(fnIn.ref_files, fnIn.refstring))
    /\ fnPc' = "reviewed"
    /\ UNCHANGED <<fnIn, publishVars, rv>>

ScanNext == ReviewFiles

SpecScan == ScanInit /\ [][ScanNext]_vars

\* the machine codes accepted for the architecture of the ref
Accepted ==
    IF fnIn.refstring[3] = "x86_64" THEN {"EM_X86_64", "EM_386"}
    ELSE IF fnIn.refstring[3] = "aarch64" THEN {"EM_AARCH64"}
    ELSE {}

\* the executables and shared libraries under files/ whose header parses and
\* whose machine code is not accepted
Offending ==
    {p \in DOMAIN fnIn.ref_files :
        /\ p[1] \in {"files/bin/", "files/lib/"}
        /\ fnIn.ref_files[p].bytes.mime \in
               {"application/x-executable", "application/x-sharedlib"}
        /\ fnIn.ref_files[p].bytes.e_machine # None
        /\ unwrap(fnIn.ref_files[p].bytes.e_machine) \notin Accepted}

\* C21: when review_files returns, it returns no diagnostic if no executable
\* or shared library with a parseable header has a machine code outside the
\* accepted set of the ref's architecture, and otherwise one
\* WrongArchExecutables warning that lists exactly those files, each once,
\* with its machine code.
C21_ArchitectureScan ==
    (fnPc = "reviewed" /\ unwrap(fnOut).ok) =>
        LET diagnostics == unwrap(fnOut).val
        IN  IF Offending = {} THEN diagnostics = <<>>
            ELSE /\ Len(diagnostics) = 1
                 /\ diagnostics[1].is_warning
                 /\ diagnostics[1].refstring = Some(fnIn.refstring)
                 /\ diagnostics[1].info.category = "WrongArchExecutables"
                 /\ diagnostics[1].info.expected_arch = fnIn.refstring[3]
                 /\ Len(diagnostics[1].info.executables) = Cardinality(Offending)
                 /\ {<<e.path, e.detected_arch_code>> :
                        e \in Range(diagnostics[1].info.executables)}
                    = {<<p, unwrap(fnIn.ref_files[p].bytes.e_machine)>> :
                          p \in Offending}

\* an x86_64 ref with a 386 executable and an aarch64 library: the library
\* alone is listed
C21_Witness ==
    /\ fnPc = "reviewed" /\ unwrap(fnOut).ok
    /\ fnIn.refstring = REF_APP
    /\ Cardinality(DOMAIN fnIn.ref_files) = 2
    /\ \E p \in DOMAIN fnIn.ref_files :
           fnIn.ref_files[p].bytes.e_machine = Some("EM_386")
    /\ Len(unwrap(fnOut).val) = 1
    /\ Len(unwrap(fnOut).val[1].info.executables) = 1
    /\ unwrap(fnOut).val[1].info.executables[1].detected_arch_code = "EM_AARCH64"


-----------------------------------------------------------------------------
(* The collection of the moderation metadata applied to drawn builds         *)

\* the most refs a drawn build has
MaxModerationRefs == 3

\* a runtime and an app of the skip-list, both built for x86_64
REF_RUNTIME == <<"runtime", <<"org", "flatpak", "Platform">>, "x86_64", "stable">>

REF_SKIPPED == <<"app", <<"org", "mozilla", "firefox">>, "x86_64", "stable">>

ModerationRefs == {REF_APP, REF_OTHER, REF_RUNTIME, REF_SKIPPED, REF_LOCALE}

\* the builds of up to MaxModerationRefs refs, each with or without its
\* catalog file
ModerationRefMaps ==
    UNION {[present -> {"catalog", "none"}] :
              present \in {x \in SUBSET ModerationRefs :
                              Cardinality(x) <= MaxModerationRefs}}

\* the repository of a drawn build
ModerationRepo(drawn) ==
    [r \in DOMAIN drawn |->
        IF drawn[r] = "catalog" THEN RC_VALID(r) ELSE RC_NO_CATALOG(r)]

ModerationInit ==
    /\ \E drawn \in ModerationRefMaps :
           fnIn \in [repo : {ModerationRepo(drawn)}, order : Orders(DOMAIN drawn)]
    /\ fnOut = None
    /\ fnPc = "start"
    /\ PublishIdle
    /\ ReviewIdle

\* cmd_review.rs get_app_metadata with load_appstream
cmd_review_get_app_metadata(refstring, checksum) ==
    try(load_appstream(checksum, app_id_from_ref(refstring)),
        LAMBDA x : get_app_metadata(x[2]))

RECURSIVE cmd_review_run_from(_, _, _, _)
\* the loop of ReviewArgs::run from the i-th ref on: the request
cmd_review_run_from(ref_map, order, i, request) ==
    IF i > Len(order) THEN request
    ELSE IF order[i][1] \notin {"app", "runtime"}
            \/ arch_from_ref(order[i]) # "x86_64"
    THEN cmd_review_run_from(ref_map, order, i + 1, request)
    ELSE bind(cmd_review_get_app_metadata(order[i], ref_map[order[i]]),
              LAMBDA metadata :
        IF metadata.ok
        THEN cmd_review_run_from(ref_map, order, i + 1,
                 ReviewRequest((app_id_from_ref(order[i]) :> metadata.val)
                                   @@ request.app_metadata))
        ELSE cmd_review_run_from(ref_map, order, i + 1, request))

\* review_build of the review module applied to the build
ReviewBuildApplied ==
    /\ fnPc = "start"
    /\ fnOut' = Some(review_build(fnIn.repo, fnIn.order, CheckResult(<<>>)))
    /\ fnPc' = "review_build"
    /\ UNCHANGED <<fnIn, publishVars, rv>>

\* the loop of ReviewArgs::run of the review command applied to the build
ReviewArgsRun ==
    /\ fnPc = "start"
    /\ fnOut' = Some([request |-> cmd_review_run_from(fnIn.repo, fnIn.order, 1,
                                                      ReviewRequest(EmptyMap)),
                      result |-> CheckResult(<<>>)])
    /\ fnPc' = "cmd_review"
    /\ UNCHANGED <<fnIn, publishVars, rv>>

ModerationNext == ReviewBuildApplied \/ ReviewArgsRun

SpecModeration == ModerationInit /\ [][ModerationNext]_vars

\* the refs of the build that are primary and built for x86_64
InScope ==
    {r \in DOMAIN fnIn.repo :
        r[1] = "app" /\ r[2] \notin APPID_SKIPLIST /\ r[3] = "x86_64"}

\* the request and the diagnostics come from the refs in scope only
ScopeKept ==
    /\ DOMAIN unwrap(fnOut).request.app_metadata
           \subseteq {app_id_from_ref(r) : r \in InScope}
    /\ \A d \in Range(unwrap(fnOut).result.diagnostics) :
           d.refstring \in {Some(r) : r \in InScope}

\* C22: the app_metadata of the review request has entries only for the
\* primary x86_64 refs of the build, and every diagnostic of the collection
\* is about such a ref; this for the collection of the review module and
\* for that of the review command.
C22_ModerationScope == fnPc \in {"review_build", "cmd_review"} => ScopeKept

\* the same statement for review_build alone
C22_ReviewBuildScope == fnPc = "review_build" => ScopeKept

\* review_build on a build with a runtime that has a catalog file and an
\* app whose catalog file is missing: one diagnostic and no entry
C22_ReviewBuildWitness ==
    /\ fnPc = "review_build"
    /\ REF_RUNTIME \in DOMAIN fnIn.repo /\ REF_APP \in DOMAIN fnIn.repo
    /\ unwrap(fnOut).request.app_metadata = EmptyMap
    /\ Len(unwrap(fnOut).result.diagnostics) = 1


-----------------------------------------------------------------------------
(* utils.rs retry as a state machine over a drawn closure                    *)

\* the closure is drawn by the attempts at which it succeeds, among the
\* first MaxCalls
MaxCalls == 7

retry_count == 5

\* f(): the outcome of the k-th call of the closure
f(k) == IF k \in fnIn THEN Ok(<<"info", k>>) ELSE Err(<<"error", k>>)

\* the test that ends the loop after a failure
retry_gives_up_early(i) == i >= retry_count

retry_gives_up(i) == i > retry_count

\* let mut i = 0; let retry_count = 5; let mut wait_time = 1; with the calls
\* made and the seconds slept so far
RetryInit ==
    /\ fnIn \in SUBSET (1 .. MaxCalls)
    /\ fnOut = [i |-> 0, wait_time |-> 1, calls |-> 0, slept |-> <<>>,
                ret |-> None]
    /\ fnPc = "loop"
    /\ PublishIdle
    /\ ReviewIdle

\* match f(): return the success, or count the failure and return it when
\* the retries are used up
RetryCall ==
    /\ fnPc = "loop"
    /\ fnOut.calls < MaxCalls
    /\ LET outcome == f(fnOut.calls + 1)
           called == [fnOut EXCEPT !.calls = @ + 1]
       IN  IF outcome.ok
           THEN /\ fnOut' = [called EXCEPT !.ret = Some(outcome)]
                /\ fnPc' = "returned"
           ELSE IF retry_gives_up(fnOut.i + 1)
           THEN /\ fnOut' = [called EXCEPT !.i = @ + 1, !.ret = Some(outcome)]
                /\ fnPc' = "returned"
           ELSE /\ fnOut' = [called EXCEPT !.i = @ + 1]
                /\ fnPc' = "sleep"
    /\ UNCHANGED <<fnIn, publishVars, rv>>

\* std::thread::sleep(wait_time); wait_time *= 2 (a u64 that five doublings
\* of 1 cannot overflow)
RetrySleep ==
    /\ fnPc = "sleep"
    /\ fnOut' = [fnOut EXCEPT !.slept = Append(@, fnOut.wait_time),
                              !.wait_time = @ * 2]
    /\ fnPc' = "loop"
    /\ UNCHANGED <<fnIn, publishVars, rv>>

RetryNext == RetryCall \/ RetrySleep

SpecRetry == RetryInit /\ [][RetryNext]_vars

\* the closure and the sleep return, so the loop always takes its next step
FairSpecRetry == SpecRetry /\ WF_vars(RetryNext)

\* the waits of a whole run
RETRY_WAITS == <<1, 2, 4, 8, 16>>

\* the attempts among the first six at which the closure succeeds
Successes == {k \in fnIn : k <= 6}

FirstSuccess == CHOOSE k \in Successes : \A j \in Successes : k <= j

\* at most six calls, the waits 1, 2, 4, 8, 16 between them, and at the
\* return the first success with no call after it or the sixth error
RetryPolicy ==
    /\ fnOut.calls <= 6
    /\ fnOut.slept = SubSeq(RETRY_WAITS, 1, Len(fnOut.slept))
    /\ Len(fnOut.slept) = IF fnPc = "loop" THEN fnOut.calls
                          ELSE fnOut.calls - 1
    /\ fnPc = "returned" =>
           IF Successes # {}
           THEN /\ fnOut.calls = FirstSuccess
                /\ fnOut.ret = Some(Ok(<<"info", FirstSuccess>>))
           ELSE /\ fnOut.calls = 6
                /\ fnOut.ret = Some(Err(<<"error", 6>>))

\* C23: retry calls the closure at most 6 times, returns the first success
\* without a further call or the error of the 6th attempt, sleeps 1, 2, 4,
\* 8, 16 seconds between consecutive attempts, and always returns.
C23_RetryPolicy == [](RetryPolicy) /\ <>(fnPc = "returned")

\* six failures: all five waits and the sixth error, although a seventh
\* call would have succeeded
C23_Witness ==
    /\ fnPc = "returned"
    /\ fnIn = {7}
    /\ fnOut.calls = 6
    /\ fnOut.slept = RETRY_WAITS
    /\ fnOut.ret = Some(Err(<<"error", 6>>))


-----------------------------------------------------------------------------
(* The commit written by rewrite_ref, for drawn original commits             *)

\* further keys a commit's metadata may hold
XA_REF == "xa.ref"

OSTREE_REF_BINDING == "ostree.ref-binding"

CommitKeys == MetaKeys \cup {XA_REF, OSTREE_REF_BINDING}

CommitDicts ==
    {[k \in CommitKeys |->
         CASE k = XA_SUBSETS -> subsets
           [] k = XA_TOKEN_TYPE -> token
           [] k = XA_METADATA -> meta
           [] k = XA_REF -> xa_ref
           [] OTHER -> Some(<<"app/org.flatpak.Test/x86_64/stable">>)] :
        <<subsets, token, meta, xa_ref>> \in
            {None, Some(<<"verified">>)} \X {None, Some(1)}
                \X {None, Some("[Application]")}
                \X {None, Some("app/org.flatpak.Test/x86_64/stable")}}

\* the original commits: with and without parent, subject and body
CommitOriginals ==
    {Commit(parent, subject, body_, time, metadata, Tree(EmptyMap)) :
        <<parent, subject, body_, time, metadata>> \in
            {None, Some("0c1a5f")} \X {"", "Export org.flatpak.Test"}
                \X {"", "Name: org.flatpak.Test\nArch: x86_64"}
                \X {0, 1700000000} \X CommitDicts}

CommitInit ==
    /\ fnIn \in [commit : CommitOriginals, storefront_info : PubStorefrontInfos]
    /\ fnOut = None
    /\ fnPc = "start"
    /\ PublishIdle
    /\ ReviewIdle

\* rewrite_ref lines 96-116 on a commit whose tree the rewrite left as it was
RewrittenCommit ==
    /\ fnPc = "start"
    /\ fnOut' = Some(rewritten_commit(fnIn.commit, fnIn.commit.root,
                                      fnIn.storefront_info))
    /\ fnPc' = "done"
    /\ UNCHANGED <<fnIn, publishVars, rv>>

CommitNext == RewrittenCommit

SpecCommit == CommitInit /\ [][CommitNext]_vars

\* C24: the commit written by rewrite_ref has the subject, body, timestamp
\* and parent of the original commit, and its metadata has the original's
\* keys and values except for xa.subsets and xa.token-type.
C24_CommitCopy ==
    fnPc = "done" =>
        LET original == fnIn.commit
            written == unwrap(fnOut)
        IN  /\ written.subject = original.subject
            /\ written.body = original.body
            /\ written.time = original.time
            /\ written.parent = original.parent
            /\ DOMAIN written.metadata = DOMAIN original.metadata
            /\ \A k \in DOMAIN original.metadata \ {XA_SUBSETS, XA_TOKEN_TYPE} :
                   written.metadata[k] = original.metadata[k]

\* a commit with a parent whose subsets and token type are both rewritten
C24_Witness ==
    /\ fnPc = "done"
    /\ is_some(fnIn.commit.parent)
    /\ fnIn.commit.subject # ""
    /\ fnIn.commit.metadata[XA_REF] # None
    /\ fnIn.commit.metadata[XA_SUBSETS] = None
    /\ fnIn.commit.metadata[XA_TOKEN_TYPE] = None
    /\ unwrap(fnOut).metadata[XA_SUBSETS] # None
    /\ unwrap(fnOut).metadata[XA_TOKEN_TYPE] = Some(1)


-----------------------------------------------------------------------------
(* utils.rs app_id_from_ref and is_primary_ref on refstrings as text         *)

\* A refstring is a sequence of tokens: the separators "/" and ".", and
\* words that hold neither. Two adjacent words read as one longer word.

\* bound: the '.'-separated components of a drawn id segment
MaxParts == 3

RECURSIVE split_from(_, _, _, _, _)
split_from(s, sep, i, current, parts) ==
    IF i > Len(s) THEN Append(parts, current)
    ELSE IF s[i] = sep
    THEN split_from(s, sep, i + 1, <<>>, Append(parts, current))
    ELSE split_from(s, sep, i + 1, Append(current, s[i]), parts)

\* str::split(sep).collect()
split(s, sep) == split_from(s, sep, 1, <<>>, <<>>)

RECURSIVE join(_, _)
\* [&str]::join(sep)
join(parts, sep) ==
    IF parts = <<>> THEN <<>>
    ELSE IF Len(parts) = 1 THEN parts[1]
    ELSE parts[1] \o <<sep>> \o join(Tail(parts), sep)

\* Iterator::nth
nth(parts, n) == IF Len(parts) > n THEN Some(parts[n + 1]) ELSE None

\* Option::unwrap on None
UNWRAP_PANIC == Err("panic: called Option::unwrap() on a None value")

\* a derivation that removes the last component whatever it is
app_id_from_refstring_any_suffix(refstring) ==
    bind(nth(split(refstring, "/"), 1), LAMBDA ref_id :
        IF is_none(ref_id) THEN UNWRAP_PANIC
        ELSE bind(split(unwrap(ref_id), "."), LAMBDA id_parts :
                 Ok(join(SubSeq(id_parts, 1, Len(id_parts) - 1), "."))))

\* utils.rs app_id_from_ref on the text of the refstring
app_id_from_refstring(refstring) ==
    bind(nth(split(refstring, "/"), 1), LAMBDA ref_id :
        IF is_none(ref_id) THEN UNWRAP_PANIC
        ELSE bind(split(unwrap(ref_id), "."), LAMBDA id_parts :
                 IF id_parts[Len(id_parts)] \in {<<x>> : x \in Range(APP_SUFFIXES)}
                 THEN Ok(join(SubSeq(id_parts, 1, Len(id_parts) - 1), "."))
                 ELSE Ok(unwrap(ref_id))))

\* APPID_SKIPLIST as text
APPID_SKIPLIST_TEXT == {join([i \in 1 .. Len(id) |-> <<id[i]>>], ".") : id \in APPID_SKIPLIST}

\* a filter that takes every app ref
is_primary_refstring_any_app(refstring) == starts_with(refstring, <<"app", "/">>)

\* utils.rs is_primary_ref on the text of the refstring
is_primary_refstring(refstring) ==
    IF starts_with(refstring, <<"app", "/">>)
    THEN unwrap(nth(split(refstring, "/"), 1)) \notin APPID_SKIPLIST_TEXT
    ELSE FALSE

\* the components of a drawn id: words, the suffixes, a suffix in lower
\* case, a word that ends with a suffix, and the empty component
RefParts ==
    {<<>>, <<"org">>, <<"Builder">>, <<"Sources">>, <<"Debug">>, <<"Locale">>,
     <<"locale">>, <<"My", "Locale">>}

\* the ids of test_app_id_from_refstring
RefTested ==
    {<<"org", ".", "gnome", ".", "Platform">>,
     <<"org", ".", "gnome", ".", "Builder">>}
        \cup {<<"org", ".", "gnome", ".", "Builder", ".", x>> :
                 x \in Range(APP_SUFFIXES)}

\* ids of the skip-list, alone, with a suffix, and in another letter case
RefSkipped ==
    APPID_SKIPLIST_TEXT
        \cup {id \o <<".", "Locale">> : id \in APPID_SKIPLIST_TEXT}
        \cup {<<"org", ".", "mozilla", ".", "Firefox">>}

RefIds == {join(parts, ".") : parts \in SeqsUpTo(RefParts, MaxParts)}
              \cup RefTested \cup RefSkipped

RefKinds == {"app", "runtime", "extension", "screenshots", "App", "apps"}

\* the refstrings drawn: of one to four '/'-separated segments
RefStrings ==
    {<<kind>> : kind \in RefKinds}
        \cup {<<kind, "/">> \o id \o tail :
                 <<kind, id, tail>> \in
                     RefKinds \X RefIds
                         \X {<<>>, <<"/", "x86_64">>,
                             <<"/", "x86_64", "/", "stable">>}}

RefInit ==
    /\ fnIn \in RefStrings
    /\ fnOut = None
    /\ fnPc = "start"
    /\ PublishIdle
    /\ ReviewIdle

AppIdFromRef ==
    /\ fnPc = "start"
    /\ fnOut' = Some(app_id_from_refstring(fnIn))
    /\ fnPc' = "app_id_from_ref"
    /\ UNCHANGED <<fnIn, publishVars, rv>>

IsPrimaryRef ==
    /\ fnPc = "start"
    /\ fnOut' = Some(is_primary_refstring(fnIn))
    /\ fnPc' = "is_primary_ref"
    /\ UNCHANGED <<fnIn, publishVars, rv>>

RefNext == AppIdFromRef \/ IsPrimaryRef

SpecRef == RefInit /\ [][RefNext]_vars

\* the positions of the '/' of the refstring
Slashes == {i \in 1 .. Len(fnIn) : fnIn[i] = "/"}

FirstSlash == CHOOSE i \in Slashes : \A j \in Slashes : i <= j

\* the text between the first '/' and the second, or the end
SecondSegment ==
    LET after == {i \in Slashes : i > FirstSlash}
        end == IF after = {} THEN Len(fnIn) + 1
               ELSE CHOOSE i \in after : \A j \in after : i <= j
    IN  SubSeq(fnIn, FirstSlash + 1, end - 1)

\* the segment ends with a component that is exactly a suffix
EndsWithSuffix ==
    LET n == Len(SecondSegment)
    IN  /\ n >= 1
        /\ SecondSegment[n] \in {"Sources", "Debug", "Locale"}
        /\ n = 1 \/ SecondSegment[n - 1] = "."

\* C25: app_id_from_ref returns the second '/'-separated segment of the
\* refstring, without its last '.'-separated component (and the '.' before
\* it) exactly when that component is Sources, Debug or Locale.
C25_AppIdDerivation ==
    (fnPc = "app_id_from_ref" /\ Slashes # {}) =>
        unwrap(fnOut) =
            IF EndsWithSuffix
            THEN Ok(SubSeq(SecondSegment, 1, Len(SecondSegment) - 2))
            ELSE Ok(SecondSegment)

\* runtime/org.gnome.Builder.Locale/x86_64/stable gives org.gnome.Builder
C25_Witness ==
    /\ fnPc = "app_id_from_ref"
    /\ fnIn = <<"runtime", "/", "org", ".", "gnome", ".", "Builder", ".",
                "Locale", "/", "x86_64", "/", "stable">>
    /\ fnOut = Some(Ok(<<"org", ".", "gnome", ".", "Builder">>))

-----------------------------------------------------------------------------
(* The statuses of a review run                                              *)

\* do_review has returned Ok(())
ReturnedOk == rv.pc = "returned" /\ unwrap(rv.ret).ok

\* the status of each successful path of do_review
PathStatus ==
    IF any_error(rv.result)
    THEN IF rv.observe_only THEN "PassedWithWarnings" ELSE "Failed"
    ELSE IF unwrap(rv.response).requires_review THEN "ReviewRequired"
    ELSE "Pending"

\* C27: a review run never posts a second check status, and a run that
\* returns success has posted exactly one: Failed (PassedWithWarnings under
\* observe-only) when the validation or the metadata collection found an
\* error, ReviewRequired or Pending otherwise, as the backend answered.
C27_OneStatus ==
    /\ Len(rv.statuses) <= 1
    /\ ReturnedOk =>
          /\ Len(rv.statuses) = 1
          /\ rv.statuses[1].new_status.status = PathStatus
          /\ any_error(rv.result) <=> rv.response = None

\* a run without any diagnostic that the backend lets pass: one Pending
C27_Witness ==
    /\ ReturnedOk
    /\ rv.result.diagnostics = <<>>
    /\ rv.response = Some(ReviewRequestResponse(FALSE))
    /\ Len(rv.statuses) = 1
    /\ rv.statuses[1].new_status.status = "Pending"


-----------------------------------------------------------------------------
(* The entries of the facts in the rewritten document                        *)

\* the component of the document the first application returned
RewrittenComponent == unwrap(fnOut.once).val.components[1]

\* the places of the value entries of the custom blocks whose key is the
\* given key in any letter case
EntriesOf(key) ==
    {<<i, j>> \in UNION {{i} \X DOMAIN RewrittenComponent[i].children :
                            i \in {x \in DOMAIN RewrittenComponent :
                                      RewrittenComponent[x].tag = "custom"}} :
        LET value == RewrittenComponent[i].children[j]
        IN  /\ value.tag = "value"
            /\ is_some(value.key)
            /\ to_lowercase(unwrap(value.key)) = to_lowercase(key)}

\* the text of the organization flag as the record states it
OrganizationFlag ==
    IF unwrap(fnIn.storefront_info.verification).login_is_organization = Some(TRUE)
    THEN "true" ELSE "false"

\* the log URL flat-manager reports for the ref
RefLogUrls ==
    {x.build_log_url : x \in {y \in Range(unwrap(fnIn.build).build_refs) :
                                 y.ref_name = fnIn.refstring}}

\* the facts of the run, as <<key, text>>, the organization flag aside
CurrentFacts ==
    (IF is_some(fnIn.storefront_info.verification)
     THEN LET verification == unwrap(fnIn.storefront_info.verification)
          IN  {<<KEY_VERIFIED, IF verification.verified THEN "true" ELSE "false">>}
                  \cup {<<KEY_TIMESTAMP, t>> : t \in verification.timestamp}
                  \cup {<<KEY_METHOD, t>> : t \in verification.method}
                  \cup {<<KEY_LOGIN_NAME, t>> : t \in verification.login_name}
                  \cup {<<KEY_LOGIN_PROVIDER, t>> : t \in verification.login_provider}
                  \cup {<<KEY_WEBSITE, t>> : t \in verification.website}
     ELSE {})
    \cup
    (IF is_some(fnIn.storefront_info.pricing)
     THEN LET pricing == unwrap(fnIn.storefront_info.pricing)
          IN  {<<KEY_RECOMMENDED_DONATION, ToString(x)>> :
                  x \in pricing.recommended_donation}
                  \cup {<<KEY_MINIMUM_PAYMENT, ToString(x)>> :
                           x \in pricing.minimum_payment}
     ELSE {})
    \cup
    (IF is_some(fnIn.build)
     THEN {<<KEY_BUILD_LOG_URL, t>> : t \in unwrap(fnIn.build).build.build_log_url}
              \cup {<<KEY_BUILD_REF_LOG_URL, t>> : t \in UNION RefLogUrls}
     ELSE {})

\* the organization flag, when there is a verification record
FlagFact ==
    IF is_some(fnIn.storefront_info.verification)
    THEN {<<KEY_LOGIN_IS_ORGANIZATION, OrganizationFlag>>}
    ELSE {}

\* the key of the fact is in exactly one value entry, spelled as injected,
\* and the entry holds the text of the fact
HeldOnce(fact) ==
    /\ Cardinality(EntriesOf(fact[1])) = 1
    /\ \A place \in EntriesOf(fact[1]) :
           LET value == RewrittenComponent[place[1]].children[place[2]]
           IN  value.key = Some(fact[1]) /\ value.text = fact[2]

Rewritten == fnPc = "once" /\ unwrap(fnOut.once).ok

\* C28: after rewrite_appstream_xml every key the run injects is the key of
\* exactly one value entry over all custom blocks of the component, in any
\* letter case, and that entry holds the current value of the fact.
C28_InjectedOnce ==
    Rewritten => \A fact \in CurrentFacts \cup FlagFact : HeldOnce(fact)

\* the same for every fact but the organization flag, whose key is in
\* exactly one entry as well
C28_InjectedOnceFlagAside ==
    Rewritten =>
        /\ \A fact \in CurrentFacts : HeldOnce(fact)
        /\ \A fact \in FlagFact : Cardinality(EntriesOf(fact[1])) = 1

\* a document with the verified key in two custom blocks and two letter
\* cases, rewritten with a verification record
C28_FlagAsideWitness ==
    /\ Rewritten
    /\ is_some(fnIn.storefront_info.verification)
    /\ LET component == fnIn.doc.components[1]
       IN  /\ Len(component) = 3
           /\ component[2].children[1].key = Some(KEY_VERIFIED_UPPER)
           /\ component[3].children[1].key = Some(KEY_VERIFIED)
    /\ Cardinality(EntriesOf(KEY_VERIFIED)) = 1

\* C29: with a verification record, the entry of
\* flathub::verification::login_is_organization holds "true" when the flag
\* of the record is true and "false" when it is false or absent.
C29_OrganizationFlag ==
    (Rewritten /\ is_some(fnIn.storefront_info.verification)) =>
        \A place \in EntriesOf(KEY_LOGIN_IS_ORGANIZATION) :
            RewrittenComponent[place[1]].children[place[2]].text
                = bool_str(unwrap(fnIn.storefront_info.verification)
                               .login_is_organization = Some(TRUE))

\* the text the code writes: "true" when the flag is present
C29_FlagPresence ==
    (Rewritten /\ is_some(fnIn.storefront_info.verification)) =>
        \A place \in EntriesOf(KEY_LOGIN_IS_ORGANIZATION) :
            RewrittenComponent[place[1]].children[place[2]].text
                = bool_str(unwrap(fnIn.storefront_info.verification)
                               .login_is_organization # None)


-----------------------------------------------------------------------------
(* The storefront info of the refs of one app                                *)

\* the transactions of the run opened for refs of the app
TxOf(app_id) ==
    {i \in DOMAIN txLog : app_id_from_ref(txLog[i].refstring) = app_id}

\* what the backend answered when the first ref of the app was processed
FirstFetched(app_id) ==
    txLog[CHOOSE i \in TxOf(app_id) : \A j \in TxOf(app_id) : i <= j].fetched

\* C30: within one publish run every ref is rewritten with the storefront
\* info fetched for the first processed ref of its app id, whatever the
\* backend answers for the later refs: rewrite_ref is called with it and the
\* metadata of the written commit is derived from it.
C30_SameStorefrontInfo ==
    /\ \A i \in DOMAIN txLog :
           txLog[i].storefront_info
               = FirstFetched(app_id_from_ref(txLog[i].refstring))
    /\ pc = "set_ref" =>
           unwrap(newCommit).metadata =
               rewrite_metadata(unwrap(cur).checksum.metadata,
                                FirstFetched(app_id_from_ref(unwrap(cur).refstring)))

\* the second ref of the app is written after the backend gave other facts
\* than for the first
C30_Witness ==
    /\ pc = "set_ref"
    /\ Len(txLog) = 2
    /\ app_id_from_ref(txLog[1].refstring) = app_id_from_ref(txLog[2].refstring)
    /\ txLog[1].fetched = SI_VERIFIED_PAID
    /\ txLog[2].fetched = SI_FLOSS
    /\ txLog[2].storefront_info = SI_VERIFIED_PAID
    /\ unwrap(newCommit).metadata[XA_TOKEN_TYPE] = Some(1)

=============================================================================
